---------------------------- MODULE Spec2Model ----------------------------
(***************************************************************************)
(* crabby: the install orchestrator of src/package_utils.rs                *)
(* (install_all_packages, install_package, install_package_recursive,      *)
(* fetch_package_version, download_and_extract) with the lockfile of       *)
(* src/manifest.rs, as a state machine of concurrent tokio tasks.          *)
(*                                                                         *)
(* One behaviour is one or two runs of the orchestrator over a registry    *)
(* (Registry), a root set and a prior lockfile (scn).  Each task is one    *)
(* call of install_package_recursive; an action is one stretch of its code *)
(* between two points where other tasks can observe or change the shared   *)
(* state (visited, lockfile, package_locks, semaphore, node_modules).      *)
(***************************************************************************)
EXTENDS Naturals, Integers, Sequences, FiniteSets, TLC

(***************************************************************************)
(* Strings of the program: package names, version strings, constraints.    *)
(***************************************************************************)
None == "<none>"

\* src/main.rs:27
MAX_CONCURRENT_DOWNLOADS == 10

\* src/registry.rs:12
MAX_RETRIES == 3

Range(s) == {s[i] : i \in 1..Len(s)}

(***************************************************************************)
(* semver::Version::parse and semver::VersionReq::parse on the strings     *)
(* that occur.  A version string parses to its triple.  A requirement      *)
(* "^x.y.z" is a caret requirement; a bare "x.y.z" is a caret requirement  *)
(* too (the semver crate's default operator); "latest" does not parse     *)
(* (ok is FALSE); a string that is no version parses to the empty tuple.  *)
(***************************************************************************)
VersionParse(s) ==
    CASE s = "1.0.0" -> <<1, 0, 0>>
      [] s = "1.1.0" -> <<1, 1, 0>>
      [] s = "1.3.0" -> <<1, 3, 0>>
      [] s = "1.3.1" -> <<1, 3, 1>>
      [] s = "1.4.0" -> <<1, 4, 0>>
      [] s = "2.0.0" -> <<2, 0, 0>>
      [] s = "2.1.0" -> <<2, 1, 0>>
      [] OTHER -> <<>>

VersionReqParse(s) ==
    CASE s = "^1.0.0" -> [ok |-> TRUE, op |-> "^", v |-> <<1, 0, 0>>]
      [] s = "^2.0.0" -> [ok |-> TRUE, op |-> "^", v |-> <<2, 0, 0>>]
      [] s = "^3.0.0" -> [ok |-> TRUE, op |-> "^", v |-> <<3, 0, 0>>]
      [] s = "1.0.0"  -> [ok |-> TRUE, op |-> "^", v |-> <<1, 0, 0>>]
      [] s = "1.1.0"  -> [ok |-> TRUE, op |-> "^", v |-> <<1, 1, 0>>]
      [] s = "2.0.0"  -> [ok |-> TRUE, op |-> "^", v |-> <<2, 0, 0>>]
      [] s = "^1.3.0" -> [ok |-> TRUE, op |-> "^", v |-> <<1, 3, 0>>]
      [] s = "1.3.1"  -> [ok |-> TRUE, op |-> "^", v |-> <<1, 3, 1>>]
      [] OTHER -> [ok |-> FALSE]

\* Ord for semver::Version (no pre-release tags occur): lexicographic on the triple
VersionLess(a, b) ==
    \/ a[1] < b[1]
    \/ a[1] = b[1] /\ a[2] < b[2]
    \/ a[1] = b[1] /\ a[2] = b[2] /\ a[3] < b[3]

\* VersionReq::matches for a caret requirement with a non-zero major
ReqMatches(req, v) ==
    /\ req.op = "^"
    /\ v[1] = req.v[1]
    /\ ~VersionLess(v, req.v)

(***************************************************************************)
(* The registry: per name the metadata document (dist-tags.latest and the  *)
(* versions map), and per version what its archive's package.json holds:   *)
(* dependencies (in a fixed order), declared hook scripts and the hooks    *)
(* that exit non-zero.  A name outside RegistryNames ("E") answers 404.    *)
(* F has a versions key ("1.5") that is no semver version.  The first      *)
(* request for G's metadata meets a network error.  H, I and J have a hook *)
(* that exits non-zero, K declares an executable whose launcher cannot be  *)
(* written ("bin" in failing), P depends on H and J.                       *)
(***************************************************************************)
Pkg(deps, scripts, failing) == [deps |-> deps, scripts |-> scripts, failing |-> failing]

WideNames == {"N01", "N02", "N03", "N04", "N05", "N06", "N07", "N08", "N09", "N10",
              "N11"}

RegistryNames == {"A", "B", "C", "D", "F", "G", "H", "I", "J", "K", "P"} \cup WideNames

Registry(name) ==
    CASE name = "A" ->
           [latest |-> "1.0.0",
            versions |-> ("1.0.0" :> Pkg(<< <<"C", "^1.0.0">> >>,
                                         {"preinstall", "install", "postinstall"}, {}))]
      [] name = "B" ->
           [latest |-> "2.0.0",
            versions |-> ("1.0.0" :> Pkg(<< <<"C", "^1.0.0">> >>, {}, {})) @@
                         ("2.0.0" :> Pkg(<< <<"C", "^2.0.0">> >>, {}, {}))]
      [] name = "C" ->
           [latest |-> "2.0.0",
            versions |-> ("1.0.0" :> Pkg(<<>>, {}, {})) @@
                         ("1.1.0" :> Pkg(<<>>, {}, {})) @@
                         ("2.0.0" :> Pkg(<< <<"B", "^2.0.0">> >>, {}, {}))]
      [] name = "D" ->
           [latest |-> "1.0.0",
            versions |-> ("1.0.0" :> Pkg(<< <<"C", "^1.0.0">>, <<"E", "^1.0.0">> >>, {}, {}))]
      [] name = "F" ->
           [latest |-> "2.0.0",
            versions |-> ("1.3.0" :> Pkg(<<>>, {}, {})) @@
                         ("1.3.1" :> Pkg(<<>>, {}, {})) @@
                         ("1.4.0" :> Pkg(<<>>, {}, {})) @@
                         ("1.5"   :> Pkg(<<>>, {}, {})) @@
                         ("2.0.0" :> Pkg(<<>>, {}, {}))]
      [] name = "H" ->
           [latest |-> "1.0.0",
            versions |-> ("1.0.0" :> Pkg(<<>>, {"postinstall"}, {"postinstall"}))]
      [] name = "I" ->
           [latest |-> "1.0.0",
            versions |-> ("1.0.0" :> Pkg(<<>>, {"preinstall"}, {"preinstall"}))]
      [] name = "J" ->
           [latest |-> "1.0.0",
            versions |-> ("1.0.0" :> Pkg(<<>>, {"install"}, {"install"}))]
      [] name = "K" ->
           [latest |-> "1.0.0",
            versions |-> ("1.0.0" :> Pkg(<<>>, {}, {"bin"}))]
      [] name = "P" ->
           [latest |-> "1.0.0",
            versions |-> ("1.0.0" :> Pkg(<< <<"H", "^1.0.0">>, <<"J", "^1.0.0">> >>, {}, {}))]
      [] OTHER ->
           [latest |-> "1.0.0",
            versions |-> ("1.0.0" :> Pkg(<<>>, {}, {}))]

\* the requests for a name's metadata that meet a network error before one gets through
TransientFailures(name) == IF name = "G" THEN 1 ELSE 0

\* version_info.dist.tarball: the archive a (name, version) is published as
Tarball(name, version) == <<name, version>>

\* version_info.dist.shasum
Shasum(name, version) == <<"shasum", name, version>>

\* the package.json inside the archive a tarball URL names
InstalledPackageJson(tarball) == Registry(tarball[1]).versions[tarball[2]]

(***************************************************************************)
(* fetch_package_version, after the metadata document has arrived:         *)
(* the version selection of lines 75-100.                                  *)
(***************************************************************************)
\* the version selection left out: dist-tags.latest whatever the constraint
ResolveLatest(name, version_req) ==
    [ok |-> TRUE, version |-> Registry(name).latest,
     tarball |-> Tarball(name, Registry(name).latest),
     shasum |-> Shasum(name, Registry(name).latest)]

\* a lock hit whatever the constraint
AlwaysUseLock(version_req, dep) == TRUE

ParseableVersions(metadata) ==
    {k \in DOMAIN metadata.versions : VersionParse(k) # <<>>}

Resolved(name, v) ==
    [ok |-> TRUE, version |-> v, tarball |-> Tarball(name, v), shasum |-> Shasum(name, v)]

ResolveError == [ok |-> FALSE]

resolve(name, version_req) ==
    LET metadata == Registry(name)
        req_str  == IF version_req = None THEN "latest" ELSE version_req
        req      == VersionReqParse(req_str)
        matching == {k \in ParseableVersions(metadata) : ReqMatches(req, VersionParse(k))}
    IN  IF req.ok
        THEN IF matching = {}
             THEN ResolveError      \* "No matching version found"
             ELSE Resolved(name,
                    CHOOSE k \in matching :
                      \A o \in matching : ~VersionLess(VersionParse(k), VersionParse(o)))
        ELSE IF metadata.latest \in DOMAIN metadata.versions
             THEN Resolved(name, metadata.latest)
             ELSE ResolveError      \* "Latest version not found"

(***************************************************************************)
(* The lockfile (CrabbyLock): package name -> lock record.                 *)
(***************************************************************************)
EmptyLock == <<>>

LockDependency(version, tarball, deps) ==
    [version |-> version, tarball |-> tarball, dependencies |-> deps]

add_package(lock, name, version, tarball, deps) ==
    (name :> LockDependency(version, tarball, deps)) @@ lock

DepNames(deps) == {d[1] : d \in Range(deps)}

\* the entry a completed install of name at version leaves
Locked(name, version) ==
    name :> LockDependency(version, Tarball(name, version),
                           InstalledPackageJson(Tarball(name, version)).deps)

(***************************************************************************)
(* Lines 134 and 146-162 of install_package_recursive.                     *)
(***************************************************************************)
visit_key(name, version_req) ==
    <<name, IF version_req = None THEN "latest" ELSE version_req>>

use_lock_version(version_req, dep) ==
    IF version_req = None THEN TRUE
    ELSE version_req = "latest" \/ version_req = dep.version

lock_data(name, version_req, lock) ==
    IF name \in DOMAIN lock /\ use_lock_version(version_req, lock[name])
    THEN [some |-> TRUE, version |-> lock[name].version, tarball |-> lock[name].tarball]
    ELSE [some |-> FALSE]

(***************************************************************************)
(* State.                                                                  *)
(*   scn            the command's input: kind ("set" = install_all_packages,*)
(*                  "one" = install_package), roots (name, constraint) and *)
(*                  prior, the lockfile loaded before the first run        *)
(*   run, first     which run this is, and how the first run ended         *)
(*   orch, res      the orchestrator's position and what it returned       *)
(*   tasks          the calls of install_package_recursive, in spawn order *)
(*   visited, lockfile, package_locks, semaphore   InstallState            *)
(*   node_modules   package name -> version extracted at node_modules/name *)
(*   metadata_requests   names whose metadata document was requested       *)
(*   calls, cache, files   download_and_extract seen from the inside (see   *)
(*                  SpecExtract): its calls in progress, the archive cache  *)
(*                  directory and the files written by unpacking           *)
(*   net, rq        a registry call of src/registry.rs or src/update.rs    *)
(*                  (see SpecRegistry): what each successive send meets,   *)
(*                  and the call's retry loop                              *)
(*   disk, cmd      a command over the project directory (see SpecCommand  *)
(*                  and SpecProject): the files and directories on disk,   *)
(*                  and the command's arguments, position and result       *)
(***************************************************************************)
VARIABLES scn, run, first, orch, res, tasks, visited, lockfile, package_locks,
          semaphore, node_modules, metadata_requests, calls, cache, files,
          net, rq, disk, cmd

\* the variables of download_and_extract's inside
dl_vars == <<calls, cache, files>>

\* the variables of an install run
install_vars == <<scn, run, first, orch, res, tasks, visited, lockfile, package_locks,
                  semaphore, node_modules, metadata_requests>>

\* the variables of a registry call
rq_vars == <<net, rq>>

\* the variables of a command over the project directory
cmd_vars == <<disk, cmd>>

vars == <<scn, run, first, orch, res, tasks, visited, lockfile, package_locks,
          semaphore, node_modules, metadata_requests, calls, cache, files,
          net, rq, disk, cmd>>

Scenario(kind, roots, prior) == [kind |-> kind, roots |-> roots, prior |-> prior]

Scenarios ==
    { Scenario("set", <<>>, EmptyLock),
      Scenario("set", << <<"A", "^1.0.0">>, <<"B", "^1.0.0">> >>, EmptyLock),
      Scenario("set", << <<"A", "^1.0.0">>, <<"B", "^2.0.0">> >>, EmptyLock),
      Scenario("set", << <<"B", "latest">> >>, EmptyLock),
      Scenario("set", << <<"A", "^1.0.0">>, <<"C", "latest">> >>, Locked("C", "1.0.0")),
      Scenario("set", << <<"A", "^1.0.0">>, <<"C", "latest">> >>, Locked("C", "1.1.0")),
      Scenario("set", << <<"A", "^1.0.0">> >>, Locked("A", "1.0.0") @@ Locked("C", "1.0.0")),
      Scenario("set", << <<"A", "latest">>, <<"C", "1.0.0">> >>,
               Locked("A", "1.0.0") @@ Locked("C", "1.0.0")),
      Scenario("set", << <<"A", "latest">> >>, Locked("A", "1.0.0")),
      Scenario("set", << <<"B", "^1.0.0">>, <<"D", "^1.0.0">> >>, EmptyLock),
      Scenario("set", << <<"A", "^1.0.0">>, <<"C", "^3.0.0">> >>, EmptyLock),
      Scenario("set", << <<"A", "latest">> >>, Locked("A", "1.0.0") @@ Locked("C", "1.0.0")),
      Scenario("set", << <<"A", "^1.0.0">>, <<"C", "^2.0.0">> >>, EmptyLock),
      Scenario("set", << <<"A", "^1.0.0">>, <<"C", "latest">> >>, EmptyLock),
      Scenario("set", << <<"F", "^1.3.0">> >>, EmptyLock),
      Scenario("set", << <<"F", "1.3.1">>, <<"C", "^1.0.0">> >>, EmptyLock),
      Scenario("set", << <<"F", "latest">>, <<"B", "^2.0.0">> >>, EmptyLock),
      Scenario("set", << <<"G", "^1.0.0">>, <<"C", "^1.0.0">> >>, EmptyLock),
      Scenario("set", << <<"P", "^1.0.0">> >>, EmptyLock),
      Scenario("set", << <<"K", "^1.0.0">> >>, EmptyLock),
      Scenario("one", << <<"I", None>> >>, EmptyLock),
      Scenario("one", << <<"A", None>> >>, EmptyLock),
      Scenario("one", << <<"C", None>> >>, Locked("C", "1.0.0")) }

\* what install_all_packages / install_package returned: Ok(lockfile) carries the
\* accumulated lockfile, Err(error) carries the first error only
NoResult == [returned |-> FALSE, ok |-> FALSE, has_lockfile |-> FALSE,
             lockfile |-> EmptyLock, error |-> None]

Ok(lock) == [returned |-> TRUE, ok |-> TRUE, has_lockfile |-> TRUE,
             lockfile |-> lock, error |-> None]

Err(error) == [returned |-> TRUE, ok |-> FALSE, has_lockfile |-> FALSE,
               lockfile |-> EmptyLock, error |-> error]

\* InstallState as constructed at lines 114-121 and 392-399
Fresh(lock) ==
    /\ orch = "start"
    /\ res = NoResult
    /\ tasks = <<>>
    /\ visited = {}
    /\ lockfile = lock
    /\ package_locks = {}
    /\ semaphore = MAX_CONCURRENT_DOWNLOADS
    /\ metadata_requests = {}

NoFirst == [mode |-> None, ok |-> FALSE, lockfile |-> EmptyLock, node_modules |-> <<>>]

\* no call of download_and_extract is looked into
NoCalls ==
    /\ calls = <<>>
    /\ cache = <<>>
    /\ files = {}

\* no registry call of src/registry.rs is looked into
NoRequest ==
    /\ net = <<>>
    /\ rq = [pc |-> "none"]

\* no command over the project directory is looked into
NoCommand ==
    /\ disk = [node_modules |-> {}]
    /\ cmd = [pc |-> "none"]

Init ==
    /\ scn \in Scenarios
    /\ run = 1
    /\ first = NoFirst
    /\ node_modules = <<>>
    /\ Fresh(scn.prior)
    /\ NoCalls
    /\ NoRequest
    /\ NoCommand

(***************************************************************************)
(* Tasks.  pc is the point of install_package_recursive the task is at:    *)
(*   spawned         not yet polled                                         *)
(*   lockfile        visit key inserted, about to consult the lockfile      *)
(*   extract_locked  lock hit: inside download_and_extract (line 166)       *)
(*   pkg_lock        lock miss: waiting for the per-name mutex (line 178)   *)
(*   fetch           holds the mutex, inside fetch_package_version          *)
(*   permit          waiting for a semaphore permit (line 183)              *)
(*   extract         holds a permit, inside download_and_extract (line 184) *)
(*   join            children spawned, in the join_next loop (line 238)     *)
(*   install, postinstall   the hook script is running (lines 243, 247)     *)
(*   record          about to record itself in the lockfile (line 252)      *)
(*   ok, skipped     returned Ok(()): at the end, or at line 139            *)
(*   failed          returned Err; err is the package where the error began *)
(*   cancelled       dropped after its JoinSet was dropped                  *)
(* steps is the list of the steps of the function the task has completed.  *)
(***************************************************************************)
Task(name, version_req, parent) ==
    [name |-> name, req |-> version_req, parent |-> parent, pc |-> "spawned",
     version |-> None, tarball |-> <<>>, abort |-> FALSE, err |-> None, steps |-> <<>>]

TaskIds == 1..Len(tasks)

OkPcs == {"ok", "skipped"}

EndPcs == {"ok", "skipped", "failed", "cancelled"}

\* _lock_guard lives from line 178 to the end of the function
HoldsPkgLock(pc) == pc \in {"fetch", "permit", "extract", "join", "install", "postinstall", "record"}

\* _permit lives from line 183 to line 185
HoldsPermit(pc) == pc = "extract"

\* inside download_and_extract
InExtract(pc) == pc \in {"extract", "extract_locked"}

\* the points where the task is suspended at an .await (hook scripts block the thread)
AwaitPcs == {"spawned", "lockfile", "pkg_lock", "fetch", "permit", "extract",
             "extract_locked", "join", "record"}

Children(ts, t) == {u \in 1..Len(ts) : ts[u].parent = t}

\* tasks.spawn for every entry of deps (lines 233-236, 407-412)
SpawnAll(ts, parent, deps) ==
    ts \o [i \in 1..Len(deps) |-> Task(deps[i][1], deps[i][2], parent)]

\* dropping a JoinSet aborts every task still in it
DropJoinSet(ts, parent) ==
    [u \in 1..Len(ts) |->
        IF ts[u].parent = parent /\ ts[u].pc \notin EndPcs
        THEN [ts[u] EXCEPT !.abort = TRUE]
        ELSE ts[u]]

\* the guards a task drops when it leaves the function at pc
Release(t) ==
    /\ package_locks' = IF HoldsPkgLock(tasks[t].pc)
                        THEN package_locks \ {tasks[t].name}
                        ELSE package_locks
    /\ semaphore' = IF HoldsPermit(tasks[t].pc) THEN semaphore + 1 ELSE semaphore

\* the task returns Err (a `?` at any line): its guards and its JoinSet are dropped
FailAt(t, err, steps) ==
    /\ tasks' = DropJoinSet([tasks EXCEPT ![t].pc = "failed", ![t].err = err,
                                          ![t].steps = steps], t)
    /\ Release(t)

Fail(t, err) == FailAt(t, err, tasks[t].steps)

Running == orch = "join"

(***************************************************************************)
(* The orchestrator: install_all_packages (lines 391-420) and              *)
(* install_package (lines 113-127), which awaits the one root call inline. *)
(***************************************************************************)
RootIds == {u \in TaskIds : tasks[u].parent = 0}

OrchStart ==
    /\ orch = "start"
    /\ IF scn.kind = "set" /\ scn.roots = <<>>
       THEN /\ orch' = "returned"
            /\ res' = Ok(lockfile)
            /\ UNCHANGED tasks
       ELSE /\ orch' = "join"
            /\ tasks' = SpawnAll(tasks, 0, scn.roots)
            /\ UNCHANGED res
    /\ UNCHANGED <<cmd_vars, rq_vars, dl_vars, scn, run, first, visited, lockfile, package_locks, semaphore,
                   node_modules, metadata_requests>>

\* join_next has yielded Ok(Ok(())) for every root task
OrchJoinOk ==
    /\ orch = "join"
    /\ \A u \in RootIds : tasks[u].pc \in OkPcs
    /\ orch' = "returned"
    /\ res' = Ok(lockfile)
    /\ UNCHANGED <<cmd_vars, rq_vars, dl_vars, scn, run, first, tasks, visited, lockfile, package_locks, semaphore,
                   node_modules, metadata_requests>>

\* join_next has yielded an Err: `res??` returns it and drops the JoinSet
OrchJoinErr ==
    /\ orch = "join"
    /\ \E u \in RootIds :
         /\ tasks[u].pc = "failed"
         /\ res' = Err(tasks[u].err)
    /\ orch' = "returned"
    /\ tasks' = DropJoinSet(tasks, 0)
    /\ UNCHANGED <<cmd_vars, rq_vars, dl_vars, scn, run, first, visited, lockfile, package_locks, semaphore,
                   node_modules, metadata_requests>>

(***************************************************************************)
(* install_package_recursive, one action per stretch.                      *)
(***************************************************************************)
\* the visited check left out: no key is ever found claimed
NeverContains(set, key) == FALSE

\* line 138: visited.contains(&visit_key)
contains(set, key) == key \in set

\* lines 134-142: the visited set, under its mutex
Visit(t) ==
    /\ Running
    /\ tasks[t].pc = "spawned"
    /\ LET key == visit_key(tasks[t].name, tasks[t].req)
       IN  IF contains(visited, key)
           THEN /\ tasks' = [tasks EXCEPT ![t].pc = "skipped"]
                /\ UNCHANGED visited
           ELSE /\ visited' = visited \cup {key}
                /\ tasks' = [tasks EXCEPT ![t].pc = "lockfile"]
    /\ UNCHANGED <<cmd_vars, rq_vars, dl_vars, scn, run, first, orch, res, lockfile, package_locks, semaphore,
                   node_modules, metadata_requests>>

\* lines 146-165: the lockfile lookup, under its mutex; a hit enters download_and_extract
LockCheck(t) ==
    /\ Running
    /\ tasks[t].pc = "lockfile"
    /\ LET d == lock_data(tasks[t].name, tasks[t].req, lockfile)
       IN  tasks' = IF d.some
                    THEN [tasks EXCEPT ![t].pc = "extract_locked",
                                       ![t].version = d.version,
                                       ![t].tarball = d.tarball]
                    ELSE [tasks EXCEPT ![t].pc = "pkg_lock"]
    /\ UNCHANGED <<cmd_vars, rq_vars, dl_vars, scn, run, first, orch, res, visited, lockfile, package_locks, semaphore,
                   node_modules, metadata_requests>>

\* what download_and_extract leaves at node_modules/<name>: the directory is removed
\* and the archive unpacked into it (lines 364-387)
download_and_extract(tree, name, tarball) == (name :> tarball[2]) @@ tree

\* lines 166-167: download_and_extract returns on the lock-hit path, the task returns Ok
ExtractLocked(t) ==
    /\ Running
    /\ tasks[t].pc = "extract_locked"
    /\ node_modules' = download_and_extract(node_modules, tasks[t].name, tasks[t].tarball)
    /\ tasks' = [tasks EXCEPT ![t].pc = "ok", ![t].steps = <<"extract">>]
    /\ UNCHANGED <<cmd_vars, rq_vars, dl_vars, scn, run, first, orch, res, visited, lockfile, package_locks, semaphore,
                   metadata_requests>>

\* lines 173-178: the per-name mutex
AcquirePkgLock(t) ==
    /\ Running
    /\ tasks[t].pc = "pkg_lock"
    /\ tasks[t].name \notin package_locks
    /\ package_locks' = package_locks \cup {tasks[t].name}
    /\ tasks' = [tasks EXCEPT ![t].pc = "fetch"]
    /\ UNCHANGED <<cmd_vars, rq_vars, dl_vars, scn, run, first, orch, res, visited, lockfile, semaphore,
                   node_modules, metadata_requests>>

\* lines 65-69: client.get(&url).send() is called once; a network error is returned
SendOk(name) == TransientFailures(name) = 0

\* line 180: fetch_package_version: the metadata request (404 for an unknown name)
\* and the version selection
FetchVersion(t) ==
    /\ Running
    /\ tasks[t].pc = "fetch"
    /\ metadata_requests' = metadata_requests \cup {tasks[t].name}
    /\ LET r == resolve(tasks[t].name, tasks[t].req)
       IN  IF tasks[t].name \in RegistryNames /\ SendOk(tasks[t].name) /\ r.ok
           THEN /\ tasks' = [tasks EXCEPT ![t].pc = "permit",
                                          ![t].version = r.version,
                                          ![t].tarball = r.tarball]
                /\ UNCHANGED <<package_locks, semaphore>>
           ELSE Fail(t, tasks[t].name)
    /\ UNCHANGED <<cmd_vars, rq_vars, dl_vars, scn, run, first, orch, res, visited, lockfile, node_modules>>

\* line 183: semaphore.acquire
AcquirePermit(t) ==
    /\ Running
    /\ tasks[t].pc = "permit"
    /\ semaphore > 0
    /\ semaphore' = semaphore - 1
    /\ tasks' = [tasks EXCEPT ![t].pc = "extract"]
    /\ UNCHANGED <<cmd_vars, rq_vars, dl_vars, scn, run, first, orch, res, visited, lockfile, package_locks,
                   node_modules, metadata_requests>>

\* no hook script ever exits non-zero
HookNeverFails(pkg_json, hook) == FALSE

\* runner.rs:132-161: run_script returns Err when the script exits non-zero
HookFails(pkg_json, hook) == hook \in pkg_json.failing

\* lines 260-305: link_binaries returns Ok unless a launcher cannot be written
link_binaries(pkg_json) == "bin" \notin pkg_json.failing

\* lines 184-236 in line order, up to the first step that returns Err: the archive is
\* extracted (184), package.json is read (203-211), the executables are linked (213),
\* the preinstall hook runs if declared (223-226), the dependency tasks are spawned
\* (233-236)
ExtractSteps(pkg_json) ==
    LET linked == link_binaries(pkg_json)
        hooked == "preinstall" \notin pkg_json.scripts \/ ~HookFails(pkg_json, "preinstall")
    IN  <<"extract", "manifest">> \o
        (IF linked THEN <<"link">> ELSE <<>>) \o
        (IF linked /\ "preinstall" \in pkg_json.scripts /\ hooked
         THEN <<"preinstall">> ELSE <<>>) \o
        (IF linked /\ hooked THEN <<"spawn">> ELSE <<>>)

\* lines 184-236: download_and_extract returns, the permit is dropped, package.json is
\* read, the executables are linked, the preinstall hook runs and the dependency tasks
\* are spawned; no .await lies between these lines
Extract(t) ==
    /\ Running
    /\ tasks[t].pc = "extract"
    /\ node_modules' = download_and_extract(node_modules, tasks[t].name, tasks[t].tarball)
    /\ LET pkg_json == InstalledPackageJson(tasks[t].tarball)
       IN  IF \/ ~link_binaries(pkg_json)
              \/ "preinstall" \in pkg_json.scripts /\ HookFails(pkg_json, "preinstall")
           THEN FailAt(t, tasks[t].name, ExtractSteps(pkg_json))
           ELSE /\ tasks' = SpawnAll([tasks EXCEPT ![t].pc = "join",
                                                   ![t].steps = ExtractSteps(pkg_json)],
                                     t, pkg_json.deps)
                /\ semaphore' = semaphore + 1
                /\ UNCHANGED package_locks
    /\ UNCHANGED <<cmd_vars, rq_vars, dl_vars, scn, run, first, orch, res, visited, lockfile, metadata_requests>>

\* the postinstall hook left out: from the install hook straight to the record
StraightToRecord(pkg_json) == "record"

\* where the task goes when a step is over: the next declared hook, or the record
AfterInstall(pkg_json) == IF "postinstall" \in pkg_json.scripts THEN "postinstall" ELSE "record"

AfterJoin(pkg_json) == IF "install" \in pkg_json.scripts THEN "install" ELSE AfterInstall(pkg_json)

\* the join_next loop left out: the task goes on without awaiting its children
NotAwaited(ts, t) == TRUE

\* lines 238-240: the join_next loop has seen every child return Ok
AllJoined(ts, t) == \A u \in Children(ts, t) : ts[u].pc \in OkPcs

JoinOk(t) ==
    /\ Running
    /\ tasks[t].pc = "join"
    /\ AllJoined(tasks, t)
    /\ tasks' = [tasks EXCEPT ![t].pc = AfterJoin(InstalledPackageJson(tasks[t].tarball)),
                              ![t].steps = Append(@, "join")]
    /\ UNCHANGED <<cmd_vars, rq_vars, dl_vars, scn, run, first, orch, res, visited, lockfile, package_locks, semaphore,
                   node_modules, metadata_requests>>

\* line 239: a child returned Err: `res??` returns it
JoinErr(t) ==
    /\ Running
    /\ tasks[t].pc = "join"
    /\ \E u \in Children(tasks, t) :
         /\ tasks[u].pc = "failed"
         /\ Fail(t, tasks[u].err)
    /\ UNCHANGED <<cmd_vars, rq_vars, dl_vars, scn, run, first, orch, res, visited, lockfile, node_modules,
                   metadata_requests>>

\* lines 242-244: the install hook ends
InstallHook(t) ==
    /\ Running
    /\ tasks[t].pc = "install"
    /\ LET pkg_json == InstalledPackageJson(tasks[t].tarball)
       IN  IF HookFails(pkg_json, "install")
           THEN Fail(t, tasks[t].name)
           ELSE /\ tasks' = [tasks EXCEPT ![t].pc = AfterInstall(pkg_json),
                                          ![t].steps = Append(@, "install")]
                /\ UNCHANGED <<package_locks, semaphore>>
    /\ UNCHANGED <<cmd_vars, rq_vars, dl_vars, scn, run, first, orch, res, visited, lockfile, node_modules,
                   metadata_requests>>

\* lines 246-248: the postinstall hook ends
PostinstallHook(t) ==
    /\ Running
    /\ tasks[t].pc = "postinstall"
    /\ LET pkg_json == InstalledPackageJson(tasks[t].tarball)
       IN  IF HookFails(pkg_json, "postinstall")
           THEN Fail(t, tasks[t].name)
           ELSE /\ tasks' = [tasks EXCEPT ![t].pc = "record",
                                          ![t].steps = Append(@, "postinstall")]
                /\ UNCHANGED <<package_locks, semaphore>>
    /\ UNCHANGED <<cmd_vars, rq_vars, dl_vars, scn, run, first, orch, res, visited, lockfile, node_modules,
                   metadata_requests>>

\* lines 251-256: the lockfile record, under its mutex; the task returns Ok
Record(t) ==
    /\ Running
    /\ tasks[t].pc = "record"
    /\ lockfile' = add_package(lockfile, tasks[t].name, tasks[t].version, tasks[t].tarball,
                               InstalledPackageJson(tasks[t].tarball).deps)
    /\ tasks' = [tasks EXCEPT ![t].pc = "ok", ![t].steps = Append(@, "record")]
    /\ Release(t)
    /\ UNCHANGED <<cmd_vars, rq_vars, dl_vars, scn, run, first, orch, res, visited, node_modules, metadata_requests>>

\* a task whose JoinSet was dropped is dropped itself at the .await it is suspended at,
\* with its guards and its own JoinSet
Cancel(t) ==
    /\ tasks[t].abort
    /\ tasks[t].pc \in AwaitPcs
    /\ tasks' = DropJoinSet([tasks EXCEPT ![t].pc = "cancelled"], t)
    /\ Release(t)
    /\ UNCHANGED <<cmd_vars, rq_vars, dl_vars, scn, run, first, orch, res, visited, lockfile, node_modules,
                   metadata_requests>>

(***************************************************************************)
(* A second run of the same command.  "same": a separate invocation from   *)
(* the starting point of the first (the prior lockfile and the empty       *)
(* module tree again).  "again": the command is repeated in place          *)
(* (src/main.rs:607-620): the lockfile is the one the first run saved      *)
(* (updated_lockfile.save() is reached only on Ok), the module tree is     *)
(* what the first run left.  first keeps how the first run ended.          *)
(***************************************************************************)
SavedLock == IF res.ok THEN res.lockfile ELSE scn.prior

Rerun(mode) ==
    /\ orch = "returned"
    /\ run = 1
    /\ run' = 2
    /\ first' = [mode |-> mode, ok |-> res.ok, lockfile |-> res.lockfile,
                 node_modules |-> node_modules]
    /\ node_modules' = IF mode = "same" THEN <<>> ELSE node_modules
    /\ orch' = "start"
    /\ res' = NoResult
    /\ tasks' = <<>>
    /\ visited' = {}
    /\ lockfile' = IF mode = "same" THEN scn.prior ELSE SavedLock
    /\ package_locks' = {}
    /\ semaphore' = MAX_CONCURRENT_DOWNLOADS
    /\ metadata_requests' = {}
    /\ UNCHANGED <<cmd_vars, rq_vars, dl_vars, scn>>

Next ==
    \/ OrchStart
    \/ OrchJoinOk
    \/ OrchJoinErr
    \/ \E t \in TaskIds : Visit(t)
    \/ \E t \in TaskIds : LockCheck(t)
    \/ \E t \in TaskIds : ExtractLocked(t)
    \/ \E t \in TaskIds : AcquirePkgLock(t)
    \/ \E t \in TaskIds : FetchVersion(t)
    \/ \E t \in TaskIds : AcquirePermit(t)
    \/ \E t \in TaskIds : Extract(t)
    \/ \E t \in TaskIds : JoinOk(t)
    \/ \E t \in TaskIds : JoinErr(t)
    \/ \E t \in TaskIds : InstallHook(t)
    \/ \E t \in TaskIds : PostinstallHook(t)
    \/ \E t \in TaskIds : Record(t)
    \/ \E t \in TaskIds : Cancel(t)
    \/ \E mode \in {"same", "again"} : Rerun(mode)

Spec == Init /\ [][Next]_vars

(***************************************************************************)
(* The wide run: install_all_packages on eleven root packages, each pinned *)
(* "latest" in the manifest and present in the prior lockfile (a project   *)
(* installed before), one more than there are permits.  Its tasks are      *)
(* polled in spawn order up to their entry into download_and_extract and   *)
(* leave it in any order: SpecWide takes the steps of Spec under one       *)
(* schedule of the runtime, so every state it reaches is a state of the    *)
(* program.                                                                *)
(***************************************************************************)
WideRoots ==
    << <<"N01", "latest">>, <<"N02", "latest">>, <<"N03", "latest">>, <<"N04", "latest">>,
       <<"N05", "latest">>, <<"N06", "latest">>, <<"N07", "latest">>, <<"N08", "latest">>,
       <<"N09", "latest">>, <<"N10", "latest">>, <<"N11", "latest">> >>

WideLock == [n \in WideNames |-> LockDependency("1.0.0", Tarball(n, "1.0.0"), <<>>)]

InitWide ==
    /\ scn = Scenario("set", WideRoots, WideLock)
    /\ run = 1
    /\ first = NoFirst
    /\ node_modules = <<>>
    /\ Fresh(scn.prior)
    /\ NoCalls
    /\ NoRequest
    /\ NoCommand

PolledInOrder(t) == \A u \in 1..(t - 1) : tasks[u].pc \notin {"spawned", "lockfile"}

NextWide ==
    \/ OrchStart
    \/ OrchJoinOk
    \/ \E t \in TaskIds : PolledInOrder(t) /\ Visit(t)
    \/ \E t \in TaskIds : LockCheck(t)
    \/ \E t \in TaskIds : ExtractLocked(t)

SpecWide == InitWide /\ [][NextWide]_vars

(***************************************************************************)
(* download_and_extract (lines 307-389) from the inside: the archive cache, *)
(* the checksum and the unpack loop.  A call is one invocation; several     *)
(* calls run at once on the runtime's worker threads (up to                 *)
(* MAX_CONCURRENT_DOWNLOADS from the lock-miss path, and any number from    *)
(* the lock-hit path, which takes neither the per-name mutex nor a permit). *)
(***************************************************************************)
\* the archive published at a tarball URL: its entries' paths, as path components
ArchiveEntries(tarball) ==
    CASE tarball = <<"C", "1.1.0">> ->
           << <<"package">>, <<"package", "package.json">>, <<"package", "lib", "index.js">> >>
      [] tarball = <<"B", "1.0.0">> ->
           << <<"/", "etc", "b.conf">>, <<"package", "lib", "..", "index.js">> >>
      [] tarball = <<"D", "1.0.0">> ->
           << <<"package", "package.json">>, <<"package", "..", "..", "evil.js">> >>
      [] OTHER -> << <<"package", "package.json">> >>

\* SHA-1 of a byte string, as lowercase hex (safety.rs, format!("{:x}"))
Sha1(bytes) == "sha1-" \o bytes[1] \o "-" \o bytes[2]

\* expected_checksum: Option<&str>
NoChecksum == [some |-> FALSE, hex |-> ""]

Checksum(hex) == [some |-> TRUE, hex |-> hex]

\* lines 310-312
cache_key(name, version) == name \o "-" \o version \o ".tgz"

\* a file of the cache directory: the bytes written to it, and the fs::write calls that
\* have opened (truncated) it and not yet written all their bytes
CacheFile(bytes, writers) == [bytes |-> bytes, writers |-> writers]

\* what fs::read returns for a cache file
ReadFile(file) == [bytes |-> file.bytes, complete |-> file.writers = 0]

NoData == [bytes |-> <<>>, complete |-> FALSE]

Call(name, version, tarball, expected) ==
    [name |-> name, version |-> version, tarball |-> tarball, expected |-> expected,
     pc |-> "start", data |-> NoData, cached |-> FALSE, warned |-> FALSE]

CallIds == 1..Len(calls)

\* lines 314-317: cached_file.exists(), and fs::read if it does
CacheLookup(c) ==
    /\ calls[c].pc = "start"
    /\ LET key == cache_key(calls[c].name, calls[c].version)
       IN  calls' = IF key \in DOMAIN cache
                    THEN [calls EXCEPT ![c].pc = "verify",
                                       ![c].data = ReadFile(cache[key]),
                                       ![c].cached = TRUE]
                    ELSE [calls EXCEPT ![c].pc = "download"]
    /\ UNCHANGED <<cache, files>>

\* lines 319-325: the response's bytes have arrived
Download(c) ==
    /\ calls[c].pc = "download"
    /\ calls' = [calls EXCEPT ![c].pc = "write",
                              ![c].data = [bytes |-> calls[c].tarball, complete |-> TRUE]]
    /\ UNCHANGED <<cache, files>>

\* line 326: fs::write creates or truncates the file and starts writing
WriteBegin(c) ==
    /\ calls[c].pc = "write"
    /\ LET key == cache_key(calls[c].name, calls[c].version)
           writers == IF key \in DOMAIN cache THEN cache[key].writers ELSE 0
       IN  cache' = (key :> CacheFile(calls[c].data.bytes, writers + 1)) @@ cache
    /\ calls' = [calls EXCEPT ![c].pc = "writing"]
    /\ UNCHANGED files

\* line 326: fs::write has written its last byte
WriteEnd(c) ==
    /\ calls[c].pc = "writing"
    /\ LET key == cache_key(calls[c].name, calls[c].version)
       IN  cache' = [cache EXCEPT ![key].writers = @ - 1]
    /\ calls' = [calls EXCEPT ![c].pc = "verify"]
    /\ UNCHANGED files

\* an absent or empty expected checksum is verified (and found wrong) like any other
AlwaysVerify(expected) == TRUE

\* lines 330-331: the checksum is verified when one was passed and it is not empty
ShouldVerify(expected) == expected.some /\ expected.hex # ""

\* what a read of the file yields: all of its bytes, or not all of them while an
\* fs::write to it is under way
Held(file) ==
    IF file.writers = 0 THEN file.bytes ELSE <<file.bytes[1], file.bytes[2] \o "~">>

\* safety.rs:37-54: the hash of what the file holds now
calculate_checksum(file) == Sha1(Held(file))

\* the comparison left out: whatever is expected is taken as verified
VerifyTrusting(file, expected) == TRUE

\* safety.rs:8-34: true when no checksum is expected, else the hash of what the file
\* holds now against the expected hex
verify_checksum(file, expected) ==
    IF ~expected.some THEN TRUE ELSE Sha1(Held(file)) = expected.hex

\* lines 330-348: a mismatch prints a warning and nothing else
Verify(c) ==
    /\ calls[c].pc = "verify"
    /\ LET key == cache_key(calls[c].name, calls[c].version)
       IN  calls' = [calls EXCEPT
                        ![c].pc = "unpack",
                        ![c].warned = /\ ShouldVerify(calls[c].expected)
                                      /\ ~verify_checksum(cache[key], calls[c].expected)]
    /\ UNCHANGED <<cache, files>>

\* lines 374-376: the entry's path without its first component
relative_path(path) == IF path = <<>> THEN <<>> ELSE Tail(path)

\* the location a path names once the file system has followed its ".." components
RECURSIVE Resolve(_, _)
Resolve(path, at) ==
    IF path = <<>> THEN at
    ELSE Resolve(Tail(path),
                 IF Head(path) # ".." THEN Append(at, Head(path))
                 ELSE IF at = <<>> \/ at[Len(at)] = ".." THEN Append(at, "..")
                 ELSE SubSeq(at, 1, Len(at) - 1))

\* lines 364 and 382
target_dir(name) == <<"node_modules", name>>

extract_path(name, path) == target_dir(name) \o relative_path(path)

Under(dir, path) == Len(path) > Len(dir) /\ SubSeq(path, 1, Len(dir)) = dir

\* lines 370-387 over the first n entries: the files entry.unpack writes, each with the
\* package it was written for
Unpacked(name, entries, n) ==
    {[path |-> Resolve(extract_path(name, entries[i]), <<>>), name |-> name] :
        i \in {j \in 1..n : relative_path(entries[j]) # <<>>}}

\* lines 350-388: the target directory is removed and created, the entries unpacked.
\* A truncated archive ends the loop with an Err after the entries read so far (an
\* empty one may also read as an archive without entries).
Unpack(c) ==
    /\ calls[c].pc = "unpack"
    /\ LET name    == calls[c].name
           entries == ArchiveEntries(calls[c].data.bytes)
           kept    == {f \in files : ~Under(target_dir(name), f.path)}
       IN  IF calls[c].data.complete
           THEN /\ files' = kept \cup Unpacked(name, entries, Len(entries))
                /\ calls' = [calls EXCEPT ![c].pc = "ok"]
           ELSE \E n \in 0..(Len(entries) - 1) :
                  /\ files' = kept \cup Unpacked(name, entries, n)
                  /\ \E end \in (IF n = 0 THEN {"ok", "failed"} ELSE {"failed"}) :
                       calls' = [calls EXCEPT ![c].pc = end]
    /\ UNCHANGED cache

\* the calls looked at: C 1.1.0 from the lock-hit path (no checksum) and from the
\* lock-miss path (the registry's shasum: right, empty or stale), D 1.0.0 and B 1.0.0
CallInputs ==
    { Call("C", "1.1.0", <<"C", "1.1.0">>, NoChecksum),
      Call("C", "1.1.0", <<"C", "1.1.0">>, Checksum(Sha1(<<"C", "1.1.0">>))),
      Call("C", "1.1.0", <<"C", "1.1.0">>, Checksum("")),
      Call("C", "1.1.0", <<"C", "1.1.0">>, Checksum(Sha1(<<"C", "1.0.0">>))),
      Call("D", "1.0.0", <<"D", "1.0.0">>, Checksum(Sha1(<<"D", "1.0.0">>))),
      Call("B", "1.0.0", <<"B", "1.0.0">>, NoChecksum) }

\* two calls at once (two lock-miss calls for one name are excluded by the per-name
\* mutex), over a cache directory that is empty or holds C 1.1.0 from an earlier run
InitExtract ==
    /\ scn = Scenario("set", <<>>, EmptyLock)
    /\ run = 1
    /\ first = NoFirst
    /\ node_modules = <<>>
    /\ Fresh(scn.prior)
    /\ calls \in {<<x, y>> : x \in CallInputs, y \in CallInputs}
    /\ ~(calls[1].name = calls[2].name /\ calls[1].expected.some /\ calls[2].expected.some)
    /\ cache \in {<<>>, cache_key("C", "1.1.0") :> CacheFile(<<"C", "1.1.0">>, 0)}
    /\ files = {}
    /\ NoRequest
    /\ NoCommand

NextExtract ==
    \/ \E c \in CallIds : CacheLookup(c) /\ UNCHANGED <<install_vars, rq_vars, cmd_vars>>
    \/ \E c \in CallIds : Download(c) /\ UNCHANGED <<install_vars, rq_vars, cmd_vars>>
    \/ \E c \in CallIds : WriteBegin(c) /\ UNCHANGED <<install_vars, rq_vars, cmd_vars>>
    \/ \E c \in CallIds : WriteEnd(c) /\ UNCHANGED <<install_vars, rq_vars, cmd_vars>>
    \/ \E c \in CallIds : Verify(c) /\ UNCHANGED <<install_vars, rq_vars, cmd_vars>>
    \/ \E c \in CallIds : Unpack(c) /\ UNCHANGED <<install_vars, rq_vars, cmd_vars>>

SpecExtract == InitExtract /\ [][NextExtract]_vars

\* no install run is looked into
InstallIdle ==
    /\ scn = Scenario("set", <<>>, EmptyLock)
    /\ run = 1
    /\ first = NoFirst
    /\ node_modules = <<>>
    /\ Fresh(scn.prior)

(***************************************************************************)
(* safety.rs: calculate_checksum and verify_checksum called on the files   *)
(* of a directory.  cache holds the files, calls the calls made so far     *)
(* with what each returned.                                                *)
(***************************************************************************)
ChecksumPaths == {"a.tgz", "b.tgz"}

ChecksumBytes == {<<"C", "1.0.0">>, <<"C", "1.1.0">>}

\* expected_checksum: absent, the digest of either content, that digest in upper case,
\* and the empty string
ExpectedInputs ==
    {NoChecksum, Checksum("")} \cup {Checksum(Sha1(b)) : b \in ChecksumBytes} \cup
    {Checksum("SHA1-C-1.0.0")}

MaxChecksumCalls == 2

ChecksumCall(fn, path, expected, digest, verified) ==
    [fn |-> fn, path |-> path, expected |-> expected, digest |-> digest,
     verified |-> verified]

InitChecksum ==
    /\ InstallIdle
    /\ NoRequest
    /\ NoCommand
    /\ cache \in [ChecksumPaths -> {CacheFile(b, 0) : b \in ChecksumBytes}]
    /\ calls = <<>>
    /\ files = {}

Calculate(path) ==
    /\ Len(calls) < MaxChecksumCalls
    /\ calls' = Append(calls, ChecksumCall("calculate_checksum", path, NoChecksum,
                                           calculate_checksum(cache[path]), FALSE))
    /\ UNCHANGED <<cache, files, install_vars, rq_vars, cmd_vars>>

VerifyChecksum(path, expected) ==
    /\ Len(calls) < MaxChecksumCalls
    /\ calls' = Append(calls, ChecksumCall("verify_checksum", path, expected, "",
                                           verify_checksum(cache[path], expected)))
    /\ UNCHANGED <<cache, files, install_vars, rq_vars, cmd_vars>>

NextChecksum ==
    \/ \E path \in ChecksumPaths : Calculate(path)
    \/ \E path \in ChecksumPaths, expected \in ExpectedInputs : VerifyChecksum(path, expected)

SpecChecksum == InitChecksum /\ [][NextChecksum]_vars

(***************************************************************************)
(* The registry calls with a retry loop: fetch_package_version and         *)
(* download_and_extract of src/registry.rs (lines 50-83, 92-111) and       *)
(* get_package_info of src/update.rs (lines 66-84).  net[i] is what the    *)
(* i-th send meets: a network error, a response with a non-2xx status, a   *)
(* 2xx response whose body does not parse, or a good response.             *)
(***************************************************************************)
Outcomes == {"network_error", "status_error", "parse_error", "ok"}

RegistryCalls == {"fetch_package_version", "download_and_extract", "get_package_info"}

\* the sends looked at: one more than the attempt limit
MaxSends == 4

\* what the call returned: Ok, or an error that carries (or not) the package name and
\* the attempt count
CallOk == [ok |-> TRUE, cause |-> "none", name |-> None, attempts |-> 0]

\* anyhow!("Failed to ... '{}' after {} attempts: {}", name, MAX_RETRIES, e) in
\* registry.rs; anyhow!("Failed to fetch {} info: {}", name, e) in update.rs
RetriesExhausted(call, name) ==
    [ok |-> FALSE, cause |-> "network_error", name |-> name,
     attempts |-> IF call = "get_package_info" THEN 0 ELSE MAX_RETRIES]

\* the reqwest error passed on by `?`
Passed(cause) == [ok |-> FALSE, cause |-> cause, name |-> None, attempts |-> 0]

Request(call, name) ==
    [call |-> call, name |-> name, pc |-> "send", attempt |-> 0, slept |-> <<>>,
     result |-> CallOk]

InitRegistry ==
    /\ InstallIdle
    /\ NoCalls
    /\ NoCommand
    /\ net \in [1..MaxSends -> Outcomes]
    /\ rq \in {Request(call, "C") : call \in RegistryCalls}

\* the retry guard left out
NeverLast(attempt) == FALSE

\* `if attempt >= MAX_RETRIES`
LastAttempt(attempt) == attempt >= MAX_RETRIES

\* one turn of the loop: attempt += 1, client.get(..).send(), and the match on it
Send ==
    /\ rq.pc = "send"
    /\ rq.attempt < MaxSends
    /\ LET attempt == rq.attempt + 1
           outcome == net[attempt]
       IN  rq' = CASE outcome = "ok" ->
                        [rq EXCEPT !.attempt = attempt, !.pc = "done", !.result = CallOk]
                   [] outcome \in {"status_error", "parse_error"} ->
                        [rq EXCEPT !.attempt = attempt, !.pc = "done",
                                   !.result = Passed(outcome)]
                   [] outcome = "network_error" /\ LastAttempt(attempt) ->
                        [rq EXCEPT !.attempt = attempt, !.pc = "done",
                                   !.result = RetriesExhausted(rq.call, rq.name)]
                   [] OTHER ->
                        [rq EXCEPT !.attempt = attempt, !.pc = "sleep"]
    /\ UNCHANGED <<net, install_vars, dl_vars, cmd_vars>>

\* thread::sleep(Duration::from_secs(2u64.pow(attempt - 1)))
Sleep ==
    /\ rq.pc = "sleep"
    /\ rq' = [rq EXCEPT !.pc = "send", !.slept = Append(@, 2 ^ (rq.attempt - 1))]
    /\ UNCHANGED <<net, install_vars, dl_vars, cmd_vars>>

NextRegistry ==
    \/ Send
    \/ Sleep

SpecRegistry == InitRegistry /\ [][NextRegistry]_vars

(***************************************************************************)
(* The commands that read the project directory: `install` up to its call  *)
(* of install_all_packages (src/main.rs:607-616), `prune` (837-896) and    *)
(* `why` (src/main.rs:812-813, src/explorer.rs).  disk holds package.json, *)
(* crabby.lock and the directories under node_modules (paths relative to   *)
(* node_modules, as components).                                           *)
(***************************************************************************)
\* a file on disk: absent, present with text that does not parse, or present with a
\* document that deserializes to value
Absent == [kind |-> "absent", value |-> <<>>]

Unparsable == [kind |-> "unparsable", value |-> <<>>]

Holds(value) == [kind |-> "json", value |-> value]

\* PackageJson: dependencies and devDependencies, name -> constraint
PackageJson(dependencies, dev_dependencies) ==
    [dependencies |-> dependencies, dev_dependencies |-> dev_dependencies]

\* manifest.rs:30-47
PackageJson_load(file) ==
    CASE file.kind = "absent"     -> [ok |-> TRUE, value |-> PackageJson(<<>>, <<>>)]
      [] file.kind = "unparsable" -> [ok |-> FALSE, value |-> PackageJson(<<>>, <<>>)]
      [] OTHER                    -> [ok |-> TRUE, value |-> file.value]

\* a lockfile that does not parse is an error
CrabbyLock_load_strict(file) ==
    CASE file.kind = "absent"     -> [ok |-> TRUE, value |-> EmptyLock]
      [] file.kind = "unparsable" -> [ok |-> FALSE, value |-> EmptyLock]
      [] OTHER                    -> [ok |-> TRUE, value |-> file.value]

\* manifest.rs:86-101
CrabbyLock_load(file) ==
    CASE file.kind = "absent"     -> [ok |-> TRUE, value |-> EmptyLock]
      [] file.kind = "unparsable" -> [ok |-> TRUE, value |-> EmptyLock]
      [] OTHER                    -> [ok |-> TRUE, value |-> file.value]

\* manifest.rs:67-71
get_all_dependencies(pkg) == DOMAIN pkg.dependencies \cup DOMAIN pkg.dev_dependencies

\* a lockfile entry with the given dependency names
Entry(name, deps) ==
    name :> LockDependency("1.0.0", Tarball(name, "1.0.0"), [i \in 1..Len(deps) |-> <<deps[i], "^1.0.0">>])

\* the lockfiles looked at: A -> C with B and C apart; the cycle B <-> C with B -> F
\* beside it; the chain N01 -> N02 -> ... -> N11
Lockfiles ==
    { Entry("A", <<"C">>) @@ Entry("B", <<>>) @@ Entry("C", <<>>),
      Entry("B", <<"C", "F">>) @@ Entry("C", <<"B">>) @@ Entry("F", <<>>),
      Entry("N01", <<"N02">>) @@ Entry("N02", <<"N03">>) @@ Entry("N03", <<"N04">>) @@
      Entry("N04", <<"N05">>) @@ Entry("N05", <<"N06">>) @@ Entry("N06", <<"N07">>) @@
      Entry("N07", <<"N08">>) @@ Entry("N08", <<"N09">>) @@ Entry("N09", <<"N10">>) @@
      Entry("N10", <<"N11">>) @@ Entry("N11", <<>>) }

Manifests ==
    { PackageJson("A" :> "^1.0.0", <<>>),
      PackageJson(<<>>, "B" :> "^1.0.0"),
      PackageJson("N01" :> "^1.0.0", "A" :> "^1.0.0") }

\* the directories under node_modules
Trees ==
    { {},
      { <<"A">>, <<"A", "lib">>, <<"B">>, <<"C">>, <<"D">>, <<".bin">>,
        <<"@scope">>, <<"@scope", "pkg">>, <<"@scope", "pkg", "lib">> },
      { <<"B">>, <<"C">>, <<"F">>, <<".cache">>, <<".cache", "D">>, <<"N01">> } }

Command(name, dry_run, target) ==
    [name |-> name, dry_run |-> dry_run, target |-> target, pc |-> "start",
     pkg |-> PackageJson(<<>>, <<>>), lock |-> EmptyLock, before |-> {},
     reachable |-> {}, pruned |-> {}, paths |-> {}]

Commands ==
    {Command("install", FALSE, None)} \cup
    {Command("prune", d, None) : d \in BOOLEAN} \cup
    {Command("why", FALSE, target) : target \in {"C", "F", "N11"}}

InitCommand ==
    /\ InstallIdle
    /\ NoCalls
    /\ NoRequest
    /\ disk \in [manifest : {Absent, Unparsable} \cup {Holds(m) : m \in Manifests},
                 lock : {Absent, Unparsable} \cup {Holds(l) : l \in Lockfiles},
                 node_modules : Trees]
    /\ cmd \in Commands

\* PackageJson::load()? and CrabbyLock::load() at the head of the command: prune and
\* why pass a lockfile error on with `?`, install takes the default (unwrap_or_default)
Load ==
    /\ cmd.pc = "start"
    /\ LET pkg  == PackageJson_load(disk.manifest)
           lock == CrabbyLock_load(disk.lock)
       IN  cmd' = IF pkg.ok /\ (lock.ok \/ cmd.name = "install")
                  THEN [cmd EXCEPT !.pc = "loaded", !.pkg = pkg.value, !.lock = lock.value,
                                   !.before = disk.node_modules]
                  ELSE [cmd EXCEPT !.pc = "failed"]
    /\ UNCHANGED <<disk, install_vars, dl_vars, rq_vars>>

\* the walk left out: the names it was started from and no more
OnlyRoots(names, lock, reachable) == names

\* collect_reachable (src/main.rs:993-1002) from a set of names: every name is inserted,
\* and the names in the dependency mapping of its lockfile entry, if it has one, follow
RECURSIVE collect_reachable(_, _, _)
collect_reachable(names, lock, reachable) ==
    LET new == names \ reachable
        sub == UNION {DepNames(lock[n].dependencies) : n \in new \cap DOMAIN lock}
    IN  IF new = {} THEN reachable ELSE collect_reachable(sub, lock, reachable \cup new)

\* the first character of a path component
FirstChar(component) ==
    CASE component \in {".bin", ".cache"} -> "."
      [] component = "@scope" -> "@"
      [] OTHER -> "a"

\* relative.to_string_lossy().replace("\\", "/"): the components joined by "/"
RECURSIVE pkg_name(_)
pkg_name(path) ==
    IF Len(path) = 1 THEN path[1] ELSE path[1] \o "/" \o pkg_name(Tail(path))

\* pkg_name.starts_with(ch): the first character of the joined name is the first
\* character of the path's first component
starts_with(path, ch) == FirstChar(path[1]) = ch

\* fs::read_dir(dir): the directories directly inside dir
Entries(tree, dir) ==
    {path \in tree : Len(path) = Len(dir) + 1 /\ SubSeq(path, 1, Len(dir)) = dir}

\* src/main.rs:864-886: the directories visit_dirs(dir) prunes
RECURSIVE visit_dirs(_, _, _)
visit_dirs(dir, reachable, tree) ==
    UNION { IF starts_with(path, ".") THEN {}
            ELSE IF starts_with(path, "@") THEN visit_dirs(path, reachable, tree)
            ELSE IF pkg_name(path) \notin reachable THEN {path}
            ELSE {} : path \in Entries(tree, dir) }

\* fs::remove_dir_all for every pruned directory
RemoveAll(tree, pruned) ==
    {path \in tree : \A r \in pruned : ~(Len(path) >= Len(r) /\ SubSeq(path, 1, Len(r)) = r)}

\* src/main.rs:843-893
Prune ==
    /\ cmd.pc = "loaded"
    /\ cmd.name = "prune"
    /\ LET reachable == collect_reachable(get_all_dependencies(cmd.pkg), cmd.lock, {})
           pruned    == visit_dirs(<<>>, reachable, disk.node_modules)
       IN  /\ cmd' = [cmd EXCEPT !.pc = "done", !.reachable = reachable, !.pruned = pruned]
           /\ disk' = IF cmd.dry_run THEN disk
                      ELSE [disk EXCEPT !.node_modules = RemoveAll(@, pruned)]
    /\ UNCHANGED <<install_vars, dl_vars, rq_vars>>

\* src/explorer.rs:32
MAX_PATH_LEN == 10

\* src/explorer.rs:30-48: the paths search_recursive pushes to results
RECURSIVE search_recursive(_, _, _, _)
search_recursive(lock, current, target, path) ==
    IF Len(path) > MAX_PATH_LEN \/ current \notin DOMAIN lock THEN {}
    ELSE UNION { IF sub_dep \in Range(path) THEN {}
                 ELSE IF sub_dep = target THEN {Append(path, sub_dep)}
                 ELSE search_recursive(lock, sub_dep, target, Append(path, sub_dep)) :
                    sub_dep \in DepNames(lock[current].dependencies) }

\* src/explorer.rs:4-28
find_dependency_paths(lock, pkg, target) ==
    UNION { IF dep = target THEN {<<dep>>}
            ELSE search_recursive(lock, dep, target, <<dep>>) :
               dep \in DOMAIN pkg.dependencies }
    \cup
    UNION { IF dep = target THEN {<<dep \o " (dev)">>}
            ELSE search_recursive(lock, dep, target, <<dep \o " (dev)">>) :
               dep \in DOMAIN pkg.dev_dependencies }

\* src/main.rs:812-816
Why ==
    /\ cmd.pc = "loaded"
    /\ cmd.name = "why"
    /\ cmd' = [cmd EXCEPT !.pc = "done",
                          !.paths = find_dependency_paths(cmd.lock, cmd.pkg, cmd.target)]
    /\ UNCHANGED <<disk, install_vars, dl_vars, rq_vars>>

NextCommand ==
    \/ Load
    \/ Prune
    \/ Why

SpecCommand == InitCommand /\ [][NextCommand]_vars

(***************************************************************************)
(* The commands that change the project: `install <packages>` with or      *)
(* without --save-dev (src/main.rs:542-571), `remove <package>` (624-668)  *)
(* and `update <package>` (700-717), one after the other over one project  *)
(* directory.  disk holds package.json and crabby.lock, node_modules the   *)
(* module tree; the install inside a command is the install run above,     *)
(* started by install_package for one root without a constraint.           *)
(***************************************************************************)
\* manifest.rs:55-57 and 59-61: HashMap::insert
add_dependency(pkg, name, version) ==
    [pkg EXCEPT !.dependencies = (name :> version) @@ pkg.dependencies]

add_dev_dependency(pkg, name, version) ==
    [pkg EXCEPT !.dev_dependencies = (name :> version) @@ pkg.dev_dependencies]

\* HashMap::remove
Without(map, name) == [n \in DOMAIN map \ {name} |-> map[n]]

\* manifest.rs:63-65
remove_dependency(pkg, name) ==
    [pkg EXCEPT !.dependencies = Without(pkg.dependencies, name)]

\* package_utils.rs:125-126: what install_package returns on Ok
install_package(result) ==
    [version |-> "", tarball |-> "", lockfile |-> result.lockfile]

\* main.rs:553: the lockfile each install of the command starts from
lockfile_clone(loaded, carried) == loaded

\* a command line: packages are the names given, answer what is typed at the
\* confirmation of remove ("y" also stands for --force)
ProjectCommand(name, packages, save_dev, answer) ==
    [name |-> name, packages |-> packages, save_dev |-> save_dev, answer |-> answer,
     pc |-> "start", i |-> 1, pkg_json |-> PackageJson(<<>>, <<>>), lockfile |-> EmptyLock,
     updated |-> <<>>, version |-> "", count |-> 0,
     before |-> [manifest |-> PackageJson(<<>>, <<>>), lock |-> EmptyLock,
                 node_modules |-> <<>>]]

ProjectCommands ==
    { ProjectCommand("install", <<"C">>, FALSE, "y"),
      ProjectCommand("install", <<"C">>, TRUE, "y"),
      ProjectCommand("install", <<"A", "F">>, FALSE, "y"),
      ProjectCommand("install", <<"P">>, FALSE, "y"),
      ProjectCommand("remove", <<"C">>, FALSE, "y"),
      ProjectCommand("remove", <<"C">>, FALSE, "n"),
      ProjectCommand("remove", <<"F">>, FALSE, "y"),
      ProjectCommand("update", <<"C">>, FALSE, "y"),
      ProjectCommand("update", <<"Z">>, FALSE, "y") }

MaxCommands == 2

\* the projects the commands start from: a new one, and one with A and C installed
\* (A depends on C), C listed as a runtime or as a development dependency
Projects ==
    { [manifest |-> Holds(PackageJson(<<>>, <<>>)), lock |-> Absent, node_modules |-> <<>>],
      [manifest |-> Holds(PackageJson(("A" :> "^1.0.0") @@ ("C" :> "^1.0.0"), <<>>)),
       lock |-> Holds(Locked("A", "1.0.0") @@ Locked("C", "1.0.0")),
       node_modules |-> ("A" :> "1.0.0") @@ ("C" :> "1.0.0")],
      [manifest |-> Holds(PackageJson("A" :> "^1.0.0", "C" :> "^1.0.0")),
       lock |-> Holds(Locked("A", "1.0.0") @@ Locked("C", "1.0.0")),
       node_modules |-> ("A" :> "1.0.0") @@ ("C" :> "1.0.0")] }

\* no install run is under way
NoInstall ==
    /\ orch = "idle"
    /\ res = NoResult
    /\ tasks = <<>>
    /\ visited = {}
    /\ lockfile = EmptyLock
    /\ package_locks = {}
    /\ semaphore = MAX_CONCURRENT_DOWNLOADS
    /\ metadata_requests = {}

InitProject ==
    /\ NoCalls
    /\ NoRequest
    /\ scn = Scenario("one", <<>>, EmptyLock)
    /\ run = 1
    /\ first = NoFirst
    /\ NoInstall
    /\ \E project \in Projects :
         /\ disk = [manifest |-> project.manifest, lock |-> project.lock, node_modules |-> {}]
         /\ node_modules = project.node_modules
    /\ cmd = [ProjectCommand("none", <<>>, FALSE, "y") EXCEPT !.pc = "done"]

\* the next command line is entered once the command before has ended
Begin(c) ==
    /\ cmd.pc \in {"done", "failed", "cancelled"}
    /\ cmd.count < MaxCommands
    /\ cmd' = [c EXCEPT !.count = cmd.count + 1,
                        !.before = [manifest |-> PackageJson_load(disk.manifest).value,
                                    lock |-> CrabbyLock_load(disk.lock).value,
                                    node_modules |-> node_modules]]
    /\ UNCHANGED <<disk, install_vars, dl_vars, rq_vars>>

\* install_package (package_utils.rs:113-123): a fresh InstallState around the
\* lockfile passed in, and the one root call without a constraint
StartInstall(name, lock) ==
    /\ scn' = Scenario("one", << <<name, None>> >>, lock)
    /\ orch' = "start"
    /\ res' = NoResult
    /\ tasks' = <<>>
    /\ visited' = {}
    /\ lockfile' = lock
    /\ package_locks' = {}
    /\ semaphore' = MAX_CONCURRENT_DOWNLOADS
    /\ metadata_requests' = {}
    /\ UNCHANGED <<run, first, node_modules>>

\* main.rs:543-546: install loads the lockfile and the manifest
InstallLoad ==
    /\ cmd.name = "install"
    /\ cmd.pc = "start"
    /\ LET pkg == PackageJson_load(disk.manifest)
       IN  cmd' = IF pkg.ok
                  THEN [cmd EXCEPT !.pc = "next", !.pkg_json = pkg.value,
                                   !.lockfile = CrabbyLock_load(disk.lock).value]
                  ELSE [cmd EXCEPT !.pc = "failed"]
    /\ UNCHANGED <<disk, install_vars, dl_vars, rq_vars>>

\* main.rs:548-558: the next package of the command line: the lockfile is loaded
\* from disk again and install_package is called with it
InstallBegin ==
    /\ cmd.name = "install"
    /\ cmd.pc = "next"
    /\ cmd.i <= Len(cmd.packages)
    /\ StartInstall(cmd.packages[cmd.i],
                    lockfile_clone(CrabbyLock_load(disk.lock).value, cmd.lockfile))
    /\ cmd' = [cmd EXCEPT !.pc = "installing"]
    /\ UNCHANGED <<disk, dl_vars, rq_vars>>

\* main.rs:558-567: install_package has returned: `?`, or the lockfile it returned is
\* kept and the manifest entry made from the version it returned
InstallEnd ==
    /\ cmd.name = "install"
    /\ cmd.pc = "installing"
    /\ orch = "returned"
    /\ cmd' = IF res.ok
              THEN LET r    == install_package(res)
                       name == cmd.packages[cmd.i]
                   IN  [cmd EXCEPT
                          !.pc = "next",
                          !.i = cmd.i + 1,
                          !.lockfile = r.lockfile,
                          !.updated = Append(cmd.updated, r.lockfile),
                          !.pkg_json =
                             IF cmd.save_dev
                             THEN add_dev_dependency(cmd.pkg_json, name, "^" \o r.version)
                             ELSE add_dependency(cmd.pkg_json, name, "^" \o r.version)]
              ELSE [cmd EXCEPT !.pc = "failed"]
    /\ UNCHANGED <<disk, install_vars, dl_vars, rq_vars>>

\* main.rs:570-571: lockfile.save() and pkg_json.save()
InstallSave ==
    /\ cmd.name = "install"
    /\ cmd.pc = "next"
    /\ cmd.i > Len(cmd.packages)
    /\ disk' = [disk EXCEPT !.lock = Holds(cmd.lockfile), !.manifest = Holds(cmd.pkg_json)]
    /\ cmd' = [cmd EXCEPT !.pc = "done"]
    /\ UNCHANGED <<install_vars, dl_vars, rq_vars>>

\* main.rs:624-668, the whole of remove: nothing is done for a package that is in
\* neither mapping or when the confirmation is not "y"
Remove ==
    /\ cmd.name = "remove"
    /\ cmd.pc = "start"
    /\ LET package == cmd.packages[1]
           pkg     == PackageJson_load(disk.manifest)
           lock    == CrabbyLock_load(disk.lock)
       IN  IF ~pkg.ok
           THEN /\ cmd' = [cmd EXCEPT !.pc = "failed"]
                /\ UNCHANGED <<disk, node_modules>>
           ELSE IF package \notin get_all_dependencies(pkg.value) \/ cmd.answer # "y"
           THEN /\ cmd' = [cmd EXCEPT !.pc = "cancelled"]
                /\ UNCHANGED <<disk, node_modules>>
           ELSE /\ cmd' = [cmd EXCEPT !.pc = "done",
                                      !.pkg_json = remove_dependency(pkg.value, package),
                                      !.lockfile = Without(lock.value, package)]
                /\ disk' = [disk EXCEPT
                              !.manifest = Holds(remove_dependency(pkg.value, package)),
                              !.lock = Holds(Without(lock.value, package))]
                /\ node_modules' = Without(node_modules, package)
    /\ UNCHANGED <<scn, run, first, orch, res, tasks, visited, lockfile, package_locks,
                   semaphore, metadata_requests, dl_vars, rq_vars>>

\* update.rs:20-34 and main.rs:713-717: update_package asks the registry for the
\* version without a constraint; then the lockfile is loaded and install_package called
UpdateBegin ==
    /\ cmd.name = "update"
    /\ cmd.pc = "start"
    /\ LET package == cmd.packages[1]
           r       == resolve(package, None)
       IN  IF package \in RegistryNames /\ r.ok
           THEN /\ cmd' = [cmd EXCEPT !.pc = "installing", !.version = r.version]
                /\ StartInstall(package, CrabbyLock_load(disk.lock).value)
           ELSE /\ cmd' = [cmd EXCEPT !.pc = "failed"]
                /\ UNCHANGED install_vars
    /\ UNCHANGED <<disk, dl_vars, rq_vars>>

\* main.rs:708-715: install_package has returned: `?`, or the lockfile it returned is
\* saved and the manifest gets the constraint made from update_package's version
UpdateEnd ==
    /\ cmd.name = "update"
    /\ cmd.pc = "installing"
    /\ orch = "returned"
    /\ LET pkg == PackageJson_load(disk.manifest)
           r   == install_package(res)
       IN  IF res.ok /\ pkg.ok
           THEN /\ cmd' = [cmd EXCEPT
                             !.pc = "done",
                             !.lockfile = r.lockfile,
                             !.pkg_json = add_dependency(pkg.value, cmd.packages[1],
                                                         "^" \o cmd.version)]
                /\ disk' = [disk EXCEPT
                              !.lock = Holds(r.lockfile),
                              !.manifest = Holds(add_dependency(pkg.value, cmd.packages[1],
                                                                "^" \o cmd.version))]
           ELSE /\ cmd' = [cmd EXCEPT !.pc = "failed"]
                /\ disk' = IF res.ok THEN [disk EXCEPT !.lock = Holds(r.lockfile)] ELSE disk
    /\ UNCHANGED <<install_vars, dl_vars, rq_vars>>

NextProject ==
    \/ \E c \in ProjectCommands : Begin(c)
    \/ InstallLoad
    \/ InstallBegin
    \/ InstallEnd
    \/ InstallSave
    \/ Remove
    \/ UpdateBegin
    \/ UpdateEnd
    \/ OrchStart
    \/ OrchJoinOk
    \/ OrchJoinErr
    \/ \E t \in TaskIds : Visit(t)
    \/ \E t \in TaskIds : LockCheck(t)
    \/ \E t \in TaskIds : ExtractLocked(t)
    \/ \E t \in TaskIds : AcquirePkgLock(t)
    \/ \E t \in TaskIds : FetchVersion(t)
    \/ \E t \in TaskIds : AcquirePermit(t)
    \/ \E t \in TaskIds : Extract(t)
    \/ \E t \in TaskIds : JoinOk(t)
    \/ \E t \in TaskIds : JoinErr(t)
    \/ \E t \in TaskIds : InstallHook(t)
    \/ \E t \in TaskIds : PostinstallHook(t)
    \/ \E t \in TaskIds : Record(t)
    \/ \E t \in TaskIds : Cancel(t)

SpecProject == InitProject /\ [][NextProject]_vars

(***************************************************************************)
(* Claims.  The operators defined between them are the vocabulary of the   *)
(* properties (what is expected of a run), not steps of the program.       *)
(***************************************************************************)
\* C1: at no point of a run are two tasks inside download_and_extract for the same
\* package name, whatever their constraints and whichever path (lock hit or lock
\* miss) brought them there.
C1_PerNameSerialization ==
    \A t, u \in TaskIds :
        (t # u /\ InExtract(tasks[t].pc) /\ InExtract(tasks[u].pc))
            => tasks[t].name # tasks[u].name

\* C2: an install run whose network, extraction and hook steps all return does itself
\* return: as long as the orchestrator has not returned, some task or the orchestrator
\* can take a step (no task is left waiting on a per-name mutex, on the permit pool or
\* on the join of its children with nothing able to move).
C2_RunReturns == orch = "returned" \/ ENABLED Next

\* C3: at every point of a run the number of tasks inside download_and_extract is at
\* most MAX_CONCURRENT_DOWNLOADS, for any root set and any prior lockfile.
C3_ConcurrencyLimit ==
    Cardinality({t \in TaskIds : InExtract(tasks[t].pc)}) <= MAX_CONCURRENT_DOWNLOADS

(***************************************************************************)
(* What the claims speak of.                                               *)
(***************************************************************************)
\* the lockfile the current run was started with
PriorLock == IF run = 2 /\ first.mode = "again" /\ first.ok THEN first.lockfile ELSE scn.prior

\* the (name, constraint) requests of the dependency graph as a lockfile records it:
\* the roots and, transitively, the dependencies of the locked entries
RECURSIVE Requested(_, _)
Requested(pairs, lock) ==
    LET more == pairs \cup
                UNION {Range(lock[p[1]].dependencies) : p \in {q \in pairs : q[1] \in DOMAIN lock}}
    IN  IF more = pairs THEN pairs ELSE Requested(more, lock)

\* a concrete version satisfies a constraint (absent and "latest" accept any version)
Satisfies(version, version_req) ==
    \/ version_req \in {None, "latest"}
    \/ /\ VersionReqParse(version_req).ok
       /\ VersionParse(version) # <<>>
       /\ ReqMatches(VersionReqParse(version_req), VersionParse(version))

FullLock(lock) ==
    \A p \in Requested(Range(scn.roots), lock) :
        p[1] \in DOMAIN lock /\ Satisfies(lock[p[1]].version, p[2])

Closed(lock) == \A n \in DOMAIN lock : DepNames(lock[n].dependencies) \subseteq DOMAIN lock

\* the names in the transitive dependency closure of the packages in frontier (pairs
\* of name and version), through the dependencies their archives declare
RECURSIVE DepClosure(_, _)
DepClosure(frontier, names) ==
    LET deps == UNION {Range(InstalledPackageJson(Tarball(f[1], f[2])).deps) : f \in frontier}
        new  == {d \in deps : d[1] \notin names}
        next == {<<d[1], resolve(d[1], d[2]).version>> :
                    d \in {e \in new : e[1] \in RegistryNames /\ resolve(e[1], e[2]).ok}}
    IN  IF new = {} THEN names ELSE DepClosure(next, names \cup {d[1] : d \in new})

Finished(name) ==
    /\ name \in DOMAIN node_modules
    /\ \A u \in TaskIds : tasks[u].name = name => tasks[u].pc \in EndPcs

\* C4: when the prior lockfile has an entry for every name of the dependency graph and
\* each locked version satisfies the constraint the name is requested under, the run
\* issues no metadata request, and when it has returned Ok the locked versions are the
\* ones installed.
C4_LockFidelity ==
    FullLock(PriorLock) =>
        /\ metadata_requests = {}
        /\ (res.ok => \A p \in Range(scn.roots) :
                        /\ p[1] \in DOMAIN node_modules
                        /\ node_modules[p[1]] = PriorLock[p[1]].version)

\* C5: two runs from the same prior lockfile, root set, registry and module tree that
\* both return Ok end with equal lockfiles and equal module trees, whatever the
\* interleaving of their tasks.
C5_SameStartSameEnd ==
    (run = 2 /\ first.mode = "same" /\ first.ok /\ res.ok) =>
        /\ res.lockfile = first.lockfile
        /\ node_modules = first.node_modules

\* C6: a second run started with the lockfile the first run produced, nothing else
\* changed, ends with the lockfile and the module tree the first run ended with.
C6_SecondRunIdempotent ==
    (run = 2 /\ first.mode = "again" /\ first.ok /\ res.ok) =>
        /\ res.lockfile = first.lockfile
        /\ node_modules = first.node_modules

\* C7: a failing task cancels no other task, and the orchestrator returns only after
\* every task it spawned, directly or transitively, has run to completion (Ok or Err).
C7_NoCancellation ==
    /\ \A t \in TaskIds : ~tasks[t].abort /\ tasks[t].pc # "cancelled"
    /\ orch = "returned" => \A t \in TaskIds : tasks[t].pc \in OkPcs \cup {"failed"}

\* C8: when some packages failed and others succeeded, what the orchestrator returns
\* carries an updated lockfile with an entry for every package that succeeded and none
\* for a package that failed, and its error names each failing package.
C8_PartialOutcome ==
    (/\ orch = "returned"
     /\ \E t \in TaskIds : tasks[t].pc = "failed"
     /\ \E t \in TaskIds : tasks[t].pc = "ok") =>
        /\ res.has_lockfile
        /\ \A t \in TaskIds :
             /\ tasks[t].pc = "ok" => tasks[t].name \in DOMAIN res.lockfile
             /\ tasks[t].pc = "failed" => /\ tasks[t].name \notin DOMAIN res.lockfile
                                          /\ tasks[t].name = res.error

\* C9: while the install or postinstall hook of a package runs, every other package in
\* its transitive dependency closure is extracted and has no task still in progress.
C9_HooksAfterDependencies ==
    \A t \in TaskIds :
        tasks[t].pc \in {"install", "postinstall"} =>
            \A n \in DepClosure({<<tasks[t].name, tasks[t].version>>}, {}) \ {tasks[t].name} :
                Finished(n)

Diamond ==
    /\ scn.roots = << <<"A", "^1.0.0">>, <<"B", "^1.0.0">> >>
    /\ scn.prior = EmptyLock

\* the tasks that went past the visited check for a visit key and were not dropped
Claimants(key) ==
    {t \in TaskIds : /\ visit_key(tasks[t].name, tasks[t].req) = key
                     /\ tasks[t].pc \notin {"spawned", "skipped", "cancelled"}}

\* C11: within one run at most one task proceeds past the visited check for a visit key
\* name@constraint; a task that found its key claimed has returned without resolving
\* a version or an archive; and when the diamond run has returned Ok, C is extracted
\* and the lockfile has entries for A, B and C.
C11_OneTaskPerKey ==
    /\ \A t \in TaskIds :
         Cardinality(Claimants(visit_key(tasks[t].name, tasks[t].req))) <= 1
    /\ \A t \in TaskIds :
         tasks[t].pc = "skipped" => tasks[t].version = None /\ tasks[t].tarball = <<>>
    /\ (Diamond /\ res.ok) =>
         /\ {"A", "B", "C"} \subseteq DOMAIN res.lockfile
         /\ "C" \in DOMAIN node_modules

\* the diamond run has returned Ok: of the two tasks spawned for C@^1.0.0 one was
\* skipped and the other recorded C
C11_Witness ==
    /\ Diamond
    /\ res.ok
    /\ \E t, u \in TaskIds :
         /\ tasks[t].name = "C" /\ tasks[t].pc = "skipped"
         /\ tasks[u].name = "C" /\ tasks[u].pc = "ok"

\* the names of the root set (get_all_dependencies: runtime and dev dependencies)
RootNames == {p[1] : p \in Range(scn.roots)}

\* the current run was started with an empty module tree
StartedEmpty == run = 1 \/ first.mode = "same"

\* C12: after a run of install_all_packages into an empty module tree has returned Ok,
\* node_modules has a directory for every name reachable from the root set through the
\* dependency edges of the updated lockfile.
C12_ReachableInstalled ==
    (scn.kind = "set" /\ StartedEmpty /\ res.ok) =>
        collect_reachable(RootNames, res.lockfile, {}) \subseteq DOMAIN node_modules

\* C13: after a run of install_all_packages into an empty module tree has returned Ok,
\* every directory in node_modules is reachable from the root set through the dependency
\* edges of the updated lockfile.
C13_InstalledReachable ==
    (scn.kind = "set" /\ StartedEmpty /\ res.ok) =>
        DOMAIN node_modules \subseteq collect_reachable(RootNames, res.lockfile, {})

\* C14: whatever the archive's entries, no file unpacked for a package lies outside
\* node_modules/<name>.
C14_SafeExtraction ==
    \A f \in files : Under(target_dir(f.name), f.path)

\* C15: a call that found the cache file present has obtained the complete archive,
\* also while another call for the same (name, version) is writing the file.
C15_NoPartialRead ==
    \A c \in CallIds : calls[c].cached => calls[c].data.complete

\* C20: a call whose archive bytes are complete never fails, whatever the expected
\* checksum (a mismatch is a warning only), and a call with an absent or empty expected
\* checksum reports no mismatch.
C20_ChecksumSoft ==
    \A c \in CallIds :
        /\ (calls[c].pc = "failed" => ~calls[c].data.complete)
        /\ (calls[c].warned => calls[c].expected.some /\ calls[c].expected.hex # "")

\* a call with a stale expected checksum has warned, returned Ok and left its files
C20_Witness ==
    \E c \in CallIds :
        /\ calls[c].expected = Checksum(Sha1(<<"C", "1.0.0">>))
        /\ calls[c].data.complete
        /\ calls[c].warned
        /\ calls[c].pc = "ok"
        /\ Unpacked("C", ArchiveEntries(<<"C", "1.1.0">>), 3) \subseteq files

\* C16: a task is on the lock-hit path only if the lockfile the run was started with
\* gives a lock hit for its name and constraint: entries recorded during the run make
\* no lock hit.
C16_SnapshotLookup ==
    \A t \in TaskIds :
        tasks[t].pc = "extract_locked" =>
            lock_data(tasks[t].name, tasks[t].req, PriorLock).some

\* the task has an entry for its name in the lockfile and its constraint is absent,
\* "latest" or the entry's version string
HitCondition(t) ==
    /\ tasks[t].name \in DOMAIN lockfile
    /\ \/ tasks[t].req = None
       \/ tasks[t].req = "latest"
       \/ tasks[t].req = lockfile[tasks[t].name].version

\* C17: a task leaves the lockfile lookup on the lock-hit path exactly when the lockfile
\* has an entry for its name and its constraint is absent, "latest" or string-equal to
\* the entry's version, and then with the locked version and archive; the step that ends
\* the lock-hit path extracts that version, requests no metadata, spawns no task and
\* leaves the lockfile as it is.
C17_LockHitPath ==
    [][\A t \in TaskIds :
        /\ (tasks[t].pc = "lockfile" /\ t <= Len(tasks')
                /\ tasks'[t].pc \in {"extract_locked", "pkg_lock"}) =>
              /\ tasks'[t].pc = "extract_locked" <=> HitCondition(t)
              /\ HitCondition(t) =>
                    /\ tasks'[t].version = lockfile[tasks[t].name].version
                    /\ tasks'[t].tarball = lockfile[tasks[t].name].tarball
        /\ (tasks[t].pc = "extract_locked" /\ t <= Len(tasks') /\ tasks'[t].pc = "ok") =>
              /\ node_modules'[tasks[t].name] = tasks[t].version
              /\ metadata_requests' = metadata_requests
              /\ Len(tasks') = Len(tasks)
              /\ lockfile' = lockfile
    ]_vars

\* a task whose constraint is string-equal to the locked version has gone through the
\* lock-hit path: its package is extracted at the locked version, no metadata was
\* requested for it and it has no children
C17_Witness ==
    \E t \in TaskIds :
        /\ tasks[t].pc = "ok"
        /\ tasks[t].req = "1.0.0"
        /\ tasks[t].name \in DOMAIN scn.prior
        /\ tasks[t].version = scn.prior[tasks[t].name].version
        /\ tasks[t].name \notin metadata_requests
        /\ node_modules[tasks[t].name] = "1.0.0"
        /\ Children(tasks, t) = {}

\* the versions keys of a name's metadata that parse and satisfy a constraint
Satisfying(name, version_req) ==
    {k \in DOMAIN Registry(name).versions : Satisfies(k, version_req) /\ VersionParse(k) # <<>>}

\* the task has resolved its constraint through fetch_package_version
HasResolved(t) == tasks[t].pc \in {"permit", "extract", "join", "install", "postinstall", "record"}

\* C18: a task whose constraint parses as a semver range has resolved to the greatest
\* of the parseable versions keys that satisfy the constraint, with that version's
\* tarball and content hash; keys that do not parse are ignored.
C18_GreatestSatisfying ==
    \A t \in TaskIds :
        (HasResolved(t) /\ VersionReqParse(tasks[t].req).ok) =>
            /\ tasks[t].version \in Satisfying(tasks[t].name, tasks[t].req)
            /\ \A k \in Satisfying(tasks[t].name, tasks[t].req) :
                 ~VersionLess(VersionParse(tasks[t].version), VersionParse(k))
            /\ tasks[t].tarball = Tarball(tasks[t].name, tasks[t].version)
            /\ resolve(tasks[t].name, tasks[t].req).shasum =
                    Shasum(tasks[t].name, tasks[t].version)

\* ^1.3.0 over the keys 1.3.0, 1.3.1, 1.4.0, 1.5 and 2.0.0 has resolved to 1.4.0
C18_Witness ==
    \E t \in TaskIds :
        /\ HasResolved(t)
        /\ tasks[t].name = "F"
        /\ tasks[t].req = "^1.3.0"
        /\ tasks[t].version = "1.4.0"

\* C19: a task whose constraint parses and is satisfied by no version of the metadata
\* does not fail in fetch_package_version: it goes on with dist-tags.latest.
C19_FallbackToLatest ==
    \A t \in TaskIds :
        (/\ tasks[t].name \in RegistryNames
         /\ tasks[t].name \in metadata_requests
         /\ tasks[t].req # None
         /\ VersionReqParse(tasks[t].req).ok
         /\ Satisfying(tasks[t].name, tasks[t].req) = {}
         /\ tasks[t].pc \notin {"spawned", "skipped", "lockfile", "pkg_lock", "fetch",
                                "cancelled", "extract_locked"}) =>
            /\ tasks[t].version = Registry(tasks[t].name).latest
            /\ tasks[t].err # tasks[t].name

\* the package the task resolved to has a step that fails: a hook, or its launchers
FailingSteps(t) ==
    IF tasks[t].tarball = <<>> THEN {} ELSE InstalledPackageJson(tasks[t].tarball).failing

\* C23: a task whose metadata request meets fewer network errors than the attempt limit
\* is not reported as failed for them: the request is tried again.
C23_InstallRetries ==
    \A t \in TaskIds :
        (/\ tasks[t].name \in RegistryNames
         /\ TransientFailures(tasks[t].name) \in 1..(MAX_RETRIES - 1)) =>
            ~(tasks[t].pc = "failed" /\ tasks[t].err = tasks[t].name)

\* C24: a task whose package has a hook that exits non-zero never gets to the lockfile
\* record: the package has no lockfile entry, and neither has a package whose task
\* failed awaiting it; once the hook has failed, the task has failed and the extracted
\* directory is still there.
C24_HookFailure ==
    \A t \in TaskIds :
        /\ (FailingSteps(t) \cap {"preinstall", "install", "postinstall"} # {}
                /\ tasks[t].name \notin DOMAIN PriorLock) =>
              /\ tasks[t].pc \notin {"record", "ok"}
              /\ tasks[t].name \notin DOMAIN lockfile
        /\ (tasks[t].pc = "failed" /\ tasks[t].err \in {"H", "I", "J"}) =>
              /\ tasks[t].name \notin DOMAIN lockfile
              /\ tasks[t].err \in DOMAIN node_modules

\* the postinstall hook of H has failed: H's task and its parent P's have failed, H's
\* directory is in the module tree and the run has returned the error
C24_Witness ==
    /\ orch = "returned"
    /\ ~res.ok
    /\ res.error = "H"
    /\ "H" \in DOMAIN node_modules
    /\ \E t, u \in TaskIds :
         /\ tasks[t].name = "H" /\ tasks[t].pc = "failed"
         /\ tasks[u].name = "P" /\ tasks[u].pc = "failed" /\ tasks[u].err = "H"

\* C25: a package whose executable launchers cannot be written is installed all the
\* same: its task does not fail for it.
C25_LinkBestEffort ==
    \A t \in TaskIds :
        "bin" \in FailingSteps(t) => ~(tasks[t].pc = "failed" /\ tasks[t].err = tasks[t].name)

\* C21: a call of registry.rs makes at most three attempts; it has waited 2^(k-1)
\* seconds after the k-th attempt met a network error (k = 1, 2); and when the third
\* did too it has returned, without a third wait, an error that carries the package
\* name and the attempt count.
C21_RetryBackoff ==
    (rq.pc # "none" /\ rq.call # "get_package_info") =>
        /\ rq.attempt <= MAX_RETRIES
        /\ rq.pc = "send" => Len(rq.slept) = rq.attempt
        /\ rq.pc = "sleep" => Len(rq.slept) = rq.attempt - 1 /\ rq.attempt < MAX_RETRIES
        /\ rq.pc = "done" => Len(rq.slept) = rq.attempt - 1
        /\ \A k \in 1..Len(rq.slept) : rq.slept[k] = 2 ^ (k - 1) /\ net[k] = "network_error"
        /\ (rq.pc = "done" /\ \A i \in 1..MAX_RETRIES : net[i] = "network_error") =>
              /\ rq.attempt = MAX_RETRIES
              /\ rq.slept = <<1, 2>>
              /\ ~rq.result.ok
              /\ rq.result.name = rq.name
              /\ rq.result.attempts = MAX_RETRIES

\* three sends of a registry.rs call met a network error: the call has waited 1 and 2
\* seconds and has returned the error
C21_Witness ==
    /\ rq.pc = "done"
    /\ rq.call = "fetch_package_version"
    /\ rq.attempt = MAX_RETRIES
    /\ rq.slept = <<1, 2>>
    /\ rq.result = RetriesExhausted("fetch_package_version", "C")

\* C22: a registry call that has returned an error before its third attempt met a
\* response body that does not parse: a non-2xx response is retried like a network
\* error.
C22_StatusRetried ==
    (rq.pc = "done" /\ ~rq.result.ok /\ rq.attempt < MAX_RETRIES) =>
        net[rq.attempt] = "parse_error"

\* C26: a command that has loaded its files has failed exactly when package.json is
\* present and does not parse; an absent or unparsable crabby.lock loads as the empty
\* lockfile and an absent package.json as the empty default.
C26_LoadTolerance ==
    cmd.pc \notin {"none", "start"} =>
        /\ cmd.pc = "failed" <=> disk.manifest.kind = "unparsable"
        /\ (cmd.pc # "failed" /\ disk.lock.kind \in {"absent", "unparsable"}) =>
              cmd.lock = EmptyLock
        /\ (cmd.pc # "failed" /\ disk.manifest.kind = "absent") =>
              cmd.pkg = PackageJson(<<>>, <<>>)

\* prune has gone on past a crabby.lock that does not parse, with the empty lockfile
C26_Witness ==
    /\ cmd.name = "prune"
    /\ cmd.pc = "done"
    /\ disk.lock = Unparsable
    /\ disk.manifest.kind = "json"
    /\ cmd.lock = EmptyLock

\* a directory that holds a package: directly under node_modules (not reserved, not a
\* scope), or directly under a scope directory
IsPackageDir(path) ==
    \/ Len(path) = 1 /\ FirstChar(path[1]) \notin {".", "@"}
    \/ Len(path) = 2 /\ FirstChar(path[1]) = "@"

\* C27: after prune without dry-run, no package directory whose name (@scope/pkg for a
\* directory inside a scope directory) is not reachable is left under node_modules.
C27_PruneRemoves ==
    (cmd.name = "prune" /\ cmd.pc = "done" /\ ~cmd.dry_run) =>
        \A path \in cmd.before :
            (IsPackageDir(path) /\ pkg_name(path) \notin cmd.reachable) =>
                path \notin disk.node_modules

\* a set of names holds the manifest's dependency names and is closed under the
\* lockfile's dependency edges
ClosedUnder(set, roots, lock) ==
    /\ roots \subseteq set
    /\ \A n \in set \cap DOMAIN lock : DepNames(lock[n].dependencies) \subseteq set

\* C28: when prune is done, the reachable set is the least set that holds the manifest's
\* dependency names and is closed under the lockfile's edges; every pruned directory
\* has a name outside it that does not start with '.'; nothing but the pruned
\* directories and what lies in them is gone; and in dry-run mode nothing is gone.
C28_PruneSafe ==
    (cmd.name = "prune" /\ cmd.pc = "done") =>
        /\ ClosedUnder(cmd.reachable, get_all_dependencies(cmd.pkg), cmd.lock)
        /\ \A set \in SUBSET cmd.reachable :
             ClosedUnder(set, get_all_dependencies(cmd.pkg), cmd.lock) => set = cmd.reachable
        /\ \A r \in cmd.pruned : pkg_name(r) \notin cmd.reachable /\ FirstChar(r[1]) # "."
        /\ \A path \in cmd.before \ disk.node_modules :
             \E r \in cmd.pruned : Len(path) >= Len(r) /\ SubSeq(path, 1, Len(r)) = r
        /\ \A path \in cmd.before :
             (pkg_name(path) \in cmd.reachable \/ FirstChar(path[1]) = ".") =>
                path \in disk.node_modules
        /\ cmd.dry_run => disk.node_modules = cmd.before

\* prune over the lockfile A -> C, B, C with the manifest dependency A has pruned B and
\* D and kept A, C and .bin
C28_Witness ==
    /\ cmd.name = "prune"
    /\ cmd.pc = "done"
    /\ ~cmd.dry_run
    /\ cmd.reachable = {"A", "C"}
    /\ {<<"B">>, <<"D">>} \subseteq cmd.pruned
    /\ {<<"A">>, <<"A", "lib">>, <<"C">>, <<".bin">>} \subseteq disk.node_modules
    /\ <<"B">> \notin disk.node_modules

\* the package name a path element stands for: the element itself, or the name a dev
\* root is labelled from
NameOf(element) ==
    LET names == DOMAIN cmd.lock \cup get_all_dependencies(cmd.pkg)
    IN  IF element \in names THEN element
        ELSE CHOOSE n \in names : element = n \o " (dev)"

\* C29: no path returned by find_dependency_paths has one package name at two places.
C29_PathsSimple ==
    (cmd.name = "why" /\ cmd.pc = "done") =>
        \A path \in cmd.paths :
            \A i, j \in 1..Len(path) : i # j => NameOf(path[i]) # NameOf(path[j])

\* C30: no path returned by find_dependency_paths is longer than the cap.
C30_PathCap ==
    (cmd.name = "why" /\ cmd.pc = "done") =>
        \A path \in cmd.paths : Len(path) <= MAX_PATH_LEN

\* C34: a task that has spawned its dependency tasks and awaits them, or runs its
\* install or postinstall hook, no longer holds the per-name mutex of its package.
C34_MutexReleasedEarly ==
    \A t \in TaskIds :
        tasks[t].pc \in {"join", "install", "postinstall"} =>
            tasks[t].name \notin package_locks

\* the steps of a package task on the lock-miss path, in the order claimed
StepOrder ==
    <<"extract", "manifest", "link", "preinstall", "spawn", "join", "install",
      "postinstall", "record">>

Position(step) == CHOOSE i \in 1..Len(StepOrder) : StepOrder[i] = step

\* the steps a task of this package has to go through: the hooks only if declared
Due(pkg_json) ==
    {"extract", "manifest", "link", "spawn", "join", "record"} \cup
    (pkg_json.scripts \cap {"preinstall", "install", "postinstall"})

\* C36: on the lock-miss path a task completes its steps in the order extraction,
\* manifest read, executable linking, preinstall hook, spawning of the dependency
\* tasks, completion of all of them, install hook, postinstall hook, lockfile record:
\* a completed step was preceded by every step due before it, the dependency tasks
\* have all returned Ok when their completion is noted, and a name gets a lockfile
\* entry only from a task that has completed every step, the postinstall hook included.
C36_StepOrder ==
    /\ \A t \in TaskIds :
         tasks[t].steps # <<>> /\ tasks[t].steps # <<"extract">> =>
            LET steps    == tasks[t].steps
                pkg_json == InstalledPackageJson(tasks[t].tarball)
            IN  /\ \A i, j \in 1..Len(steps) :
                      i < j => Position(steps[i]) < Position(steps[j])
                /\ \A i \in 1..Len(steps) :
                      /\ steps[i] \in Due(pkg_json)
                      /\ \A due \in Due(pkg_json) :
                            Position(due) < Position(steps[i]) => due \in Range(steps)
                /\ "spawn" \in Range(steps) =>
                      Len(SelectSeq(tasks, LAMBDA u : u.parent = t)) = Len(pkg_json.deps)
                /\ "join" \in Range(steps) =>
                      \A u \in Children(tasks, t) : tasks[u].pc \in OkPcs
                /\ "extract" \in Range(steps) => tasks[t].name \in DOMAIN node_modules
    /\ \A name \in DOMAIN lockfile :
         (name \notin DOMAIN PriorLock \/ lockfile[name] # PriorLock[name]) =>
            \E t \in TaskIds :
               /\ tasks[t].name = name
               /\ "record" \in Range(tasks[t].steps)
               /\ Range(tasks[t].steps) = Due(InstalledPackageJson(tasks[t].tarball))

\* the task of A 1.0.0, which declares all three hooks and depends on C, has recorded
\* itself after all nine steps
C36_Witness ==
    \E t \in TaskIds :
       /\ tasks[t].name = "A"
       /\ tasks[t].pc = "ok"
       /\ tasks[t].steps = StepOrder
       /\ "A" \in DOMAIN lockfile

RECURSIVE SimplePaths(_, _, _)
SimplePaths(lock, target, path) ==
    LET current == path[Len(path)]
    IN  IF current \notin DOMAIN lock \/ Len(path) >= MAX_PATH_LEN THEN {}
        ELSE UNION { IF sub_dep \in Range(path) THEN {}
                     ELSE IF sub_dep = target THEN {Append(path, sub_dep)}
                     ELSE SimplePaths(lock, target, Append(path, sub_dep)) :
                     sub_dep \in DepNames(lock[current].dependencies) }

PathsFrom(lock, target, dep) ==
    IF dep = target THEN {<<dep>>} ELSE SimplePaths(lock, target, <<dep>>)

\* a path from a dev root, with the label on its first element
DevLabelled(path) == <<path[1] \o " (dev)">> \o Tail(path)

ExpectedPaths(lock, pkg, target) ==
    UNION {PathsFrom(lock, target, dep) : dep \in DOMAIN pkg.dependencies} \cup
    UNION {{DevLabelled(path) : path \in PathsFrom(lock, target, dep)} :
           dep \in DOMAIN pkg.dev_dependencies}

\* C31: find_dependency_paths returns exactly the cycle-free paths of at most
\* MAX_PATH_LEN names from a runtime or dev dependency of the manifest along lockfile
\* edges to the target, those from a dev root labelled on the first element.
C31_ExactPaths ==
    (cmd.name = "why" /\ cmd.pc = "done") =>
        cmd.paths = ExpectedPaths(cmd.lock, cmd.pkg, cmd.target)

\* the manifest and the lockfile as saved on disk
SavedManifest == PackageJson_load(disk.manifest).value

SavedLockfile == CrabbyLock_load(disk.lock).value

\* C32: no package name is a key of both the runtime and the development dependency
\* mapping, in the saved manifest and in the one a command holds in memory.
C32_RuntimeXorDev ==
    /\ DOMAIN SavedManifest.dependencies \cap DOMAIN SavedManifest.dev_dependencies = {}
    /\ DOMAIN cmd.pkg_json.dependencies \cap DOMAIN cmd.pkg_json.dev_dependencies = {}

\* C35: when `install P1 P2` is done, the saved lockfile has an entry for every name
\* that the lockfile returned by the install of P1 or of P2 has one for.
C35_LockfileKeepsAll ==
    (cmd.name = "install" /\ cmd.pc = "done") =>
        \A i \in 1..Len(cmd.updated) :
            DOMAIN cmd.updated[i] \subseteq DOMAIN SavedLockfile

\* C37: when `update <pkg>` is done and the version update_package found is newer than
\* the one the lockfile pinned before, that version is the one extracted into
\* node_modules/<pkg> and recorded in the lockfile, as the manifest's ^<version> says.
C37_UpdateInstallsLatest ==
    LET package == cmd.packages[1]
    IN  (/\ cmd.name = "update"
         /\ cmd.pc = "done"
         /\ package \in DOMAIN cmd.before.lock
         /\ VersionLess(VersionParse(cmd.before.lock[package].version),
                        VersionParse(cmd.version))) =>
            /\ SavedManifest.dependencies[package] = "^" \o cmd.version
            /\ node_modules[package] = cmd.version
            /\ SavedLockfile[package].version = cmd.version

\* C38: when `install <pkg>` is done, the manifest records for the package the
\* constraint "^" followed by the version extracted into node_modules/<pkg>.
C38_ManifestRecordsInstalled ==
    (cmd.name = "install" /\ cmd.pc = "done") =>
        \A i \in 1..Len(cmd.packages) :
            LET package  == cmd.packages[i]
                recorded == IF cmd.save_dev THEN SavedManifest.dev_dependencies
                            ELSE SavedManifest.dependencies
            IN  /\ package \in DOMAIN recorded
                /\ recorded[package] = "^" \o node_modules[package]

\* remove left everything but the package as it was before the command
OthersUnchanged(package) ==
    /\ Without(SavedManifest.dependencies, package) =
          Without(cmd.before.manifest.dependencies, package)
    /\ Without(SavedManifest.dev_dependencies, package) =
          Without(cmd.before.manifest.dev_dependencies, package)
    /\ Without(SavedLockfile, package) = Without(cmd.before.lock, package)
    /\ Without(node_modules, package) = Without(cmd.before.node_modules, package)

\* C39: when `remove <pkg>` is done, the package is a key of neither dependency mapping
\* of the saved manifest nor of the saved lockfile, node_modules/<pkg> is gone, and the
\* entries of all other packages are as before.
C39_RemoveFrame ==
    LET package == cmd.packages[1]
    IN  (cmd.name = "remove" /\ cmd.pc = "done") =>
            /\ package \notin DOMAIN SavedManifest.dependencies
            /\ package \notin DOMAIN SavedManifest.dev_dependencies
            /\ package \notin DOMAIN SavedLockfile
            /\ package \notin DOMAIN node_modules
            /\ OthersUnchanged(package)

\* C40: when `remove <pkg>` is done over a lockfile in which every name referenced by a
\* record's dependency mapping was a top-level key, the saved lockfile is such again.
C40_RemoveKeepsClosed ==
    (cmd.name = "remove" /\ cmd.pc = "done" /\ Closed(cmd.before.lock)) =>
        Closed(SavedLockfile)

=============================================================================
